---- MODULE Spec2Model ----
(***************************************************************************)
(* Model of awkward-1.0's NumpyArray (src/libawkward/array/NumpyArray.cpp): *)
(* the flat, strided leaf array ("View") over shared byte buffers.         *)
(*                                                                         *)
(* Memory is modelled at byte granularity: the heap is a sequence of       *)
(* buffers, a buffer is a sequence of bytes (0..255), a View addresses its *)
(* elements by byteoffset + sum(index*stride) and reads itemsize bytes.    *)
(* Exceptions are modelled by their message (the C++ code throws           *)
(* std::invalid_argument / std::runtime_error with these messages); "" is  *)
(* a normal return.                                                        *)
(***************************************************************************)
EXTENDS Integers, Sequences, FiniteSets, TLC

VARIABLES heap, views, log

vars == <<heap, views, log>>

(***************************************************************************)
(* Bounds of the model.                                                    *)
(***************************************************************************)
\* number of calls performed in one behaviour
MaxCalls == 2
\* largest extent of a dimension of an input View
MaxExtent == 2

(***************************************************************************)
(* Generic helpers.                                                        *)
(***************************************************************************)
RECURSIVE Product(_)
Product(s) == IF s = <<>> THEN 1 ELSE Head(s) * Product(Tail(s))

Abs(x) == IF x < 0 THEN -x ELSE x

\* all sequences over S of length exactly n
SeqsOfLen(S, n) == [1..n -> S]

\* the concatenation of a sequence of sequences
RECURSIVE Flatten(_)
Flatten(seqs) ==
  IF seqs = <<>> THEN <<>> ELSE Head(seqs) \o Flatten(Tail(seqs))

RECURSIVE SeqMax(_)
SeqMax(s) ==
  IF s = <<>> THEN 0
  ELSE IF Head(s) > SeqMax(Tail(s)) THEN Head(s) ELSE SeqMax(Tail(s))

\* all multi-indices of a shape
Indices(shape) == {ix \in [1..Len(shape) -> 0..SeqMax(shape)] :
                     \A d \in 1..Len(shape) : ix[d] < shape[d]}

RECURSIVE Dot(_, _)
Dot(a, b) == IF a = <<>> THEN 0 ELSE Head(a) * Head(b) + Dot(Tail(a), Tail(b))

(***************************************************************************)
(* util::dtype and its helpers.                                            *)
(***************************************************************************)
Dtypes == {"NOT_PRIMITIVE", "boolean",
           "int8", "int16", "int32", "int64",
           "uint8", "uint16", "uint32", "uint64",
           "float16", "float32", "float64", "float128",
           "complex64", "complex128", "complex256"}

dtype_to_itemsize(dt) ==
  CASE dt = "boolean" -> 1
    [] dt = "int8" -> 1
    [] dt = "int16" -> 2
    [] dt = "int32" -> 4
    [] dt = "int64" -> 8
    [] dt = "uint8" -> 1
    [] dt = "uint16" -> 2
    [] dt = "uint32" -> 4
    [] dt = "uint64" -> 8
    [] dt = "float16" -> 2
    [] dt = "float32" -> 4
    [] dt = "float64" -> 8
    [] dt = "float128" -> 16
    [] dt = "complex64" -> 8
    [] dt = "complex128" -> 16
    [] dt = "complex256" -> 32
    [] OTHER -> 0

dtype_to_format(dt) ==
  CASE dt = "boolean" -> "?"
    [] dt = "int8" -> "b"
    [] dt = "int16" -> "h"
    [] dt = "int32" -> "i"
    [] dt = "int64" -> "q"
    [] dt = "uint8" -> "B"
    [] dt = "uint16" -> "H"
    [] dt = "uint32" -> "I"
    [] dt = "uint64" -> "Q"
    [] dt = "float16" -> "e"
    [] dt = "float32" -> "f"
    [] dt = "float64" -> "d"
    [] dt = "float128" -> "g"
    [] dt = "complex64" -> "Zf"
    [] dt = "complex128" -> "Zd"
    [] dt = "complex256" -> "Zg"
    [] OTHER -> ""

is_signed(dt) == dt \in {"int8", "int16", "int32", "int64"}

is_complex(dt) == dt \in {"complex64", "complex128", "complex256"}

(***************************************************************************)
(* Identities and parameters (Content base class).                         *)
(***************************************************************************)
\* Identities::none()
NoIdentities == [present |-> FALSE, ids |-> <<>>]

\* a fresh identities array of the given length (kernel::new_Identities)
NewIdentities(length) == [present |-> TRUE, ids |-> [k \in 1..length |-> k - 1]]

\* util::Parameters: only the "__array__" parameter is modelled
NoParameters == "none"

parameters_equal(p, q) == p = q

parameter_equals(p, value) == p = value

(***************************************************************************)
(* NumpyArray: construction and accessors.                                 *)
(***************************************************************************)
\* variant: a constructor that checks nothing
NumpyArray_ctor_error_unchecked(shape, strides) == ""

\* the check of the constructor: the message thrown, "" when it returns
NumpyArray_ctor_error(shape, strides) ==
  IF Len(shape) # Len(strides)
    THEN "len(shape) must be equal to len(strides)"
    ELSE ""

NumpyArray(identities, parameters, ptr, shape, strides, byteoffset, itemsize, format, dtype, ptr_lib) ==
  [identities |-> identities, parameters |-> parameters, ptr |-> ptr,
   shape |-> shape, strides |-> strides, byteoffset |-> byteoffset,
   itemsize |-> itemsize, format |-> format, dtype |-> dtype,
   ptr_lib |-> ptr_lib]

ndim(v) == Len(v.shape)

isscalar(v) == ndim(v) = 0

length(v) == IF isscalar(v) THEN -1 ELSE v.shape[1]

validityerror(v) ==
  IF v.shape = <<>> THEN "shape is zero-dimensional"
  ELSE IF \E i \in 1..Len(v.shape) : v.shape[i] < 0 THEN "shape[i] < 0"
  ELSE IF \E i \in 1..Len(v.strides) : v.strides[i] % v.itemsize # 0
    THEN "shape[i] % itemsize != 0"
  ELSE ""

\* byte position (0-based, in the buffer) of the element at a multi-index
BytePos(v, ix) == v.byteoffset + Dot(ix, v.strides)

\* the itemsize bytes of the element at a multi-index (what getbyte, getint8,
\* ... read through byteptr(at))
ReadBytes(h, v, ix) ==
  [k \in 1..v.itemsize |-> h[v.ptr][BytePos(v, ix) + k]]

\* every element of v lies inside its buffer
InBounds(h, v) ==
  \A ix \in Indices(v.shape) :
    /\ BytePos(v, ix) >= 0
    /\ BytePos(v, ix) + v.itemsize <= Len(h[v.ptr])

(***************************************************************************)
(* Contiguity.                                                             *)
(***************************************************************************)
RECURSIVE iscontiguous_from(_, _, _)
iscontiguous_from(v, i, x) ==
  IF i < 1 THEN TRUE
  ELSE IF x # v.strides[i] THEN FALSE
  ELSE iscontiguous_from(v, i - 1, x * v.shape[i])

\* variant: compares only the innermost stride
iscontiguous_innermost(v) ==
  ndim(v) = 0 \/ v.strides[ndim(v)] = v.itemsize

iscontiguous(v) == iscontiguous_from(v, ndim(v), v.itemsize)

flatten_shape(shape) ==
  IF Len(shape) = 1 THEN <<>>
  ELSE <<shape[1] * shape[2]>> \o SubSeq(shape, 3, Len(shape))

\* variant: drops the innermost stride instead of the outermost
flatten_strides_droplast(strides) ==
  IF Len(strides) = 1 THEN <<>>
  ELSE SubSeq(strides, 1, Len(strides) - 1)

flatten_strides(strides) ==
  IF Len(strides) = 1 THEN <<>>
  ELSE SubSeq(strides, 2, Len(strides))

\* kernel: toptr[i] = i*stride for i < skip
NumpyArray_contiguous_init_64(skip, stride) ==
  [i \in 1..skip |-> (i - 1) * stride]

\* kernel: topos[i*skip + j] = frompos[i] + j*stride
NumpyArray_contiguous_next_64(frompos, len, skip, stride) ==
  [k \in 1..(len * skip) |->
     frompos[((k - 1) \div skip) + 1] + ((k - 1) % skip) * stride]

\* kernel: memcpy(&toptr[i*stride], &fromptr[offset + pos[i]], stride)
NumpyArray_contiguous_copy_64(fromptr, len, stride, offset, pos) ==
  [k \in 1..(len * stride) |->
     fromptr[offset + pos[((k - 1) \div stride) + 1] + ((k - 1) % stride) + 1]]

\* contiguous_next returns [view, alloc]: the View over the buffer it
\* allocates (heap slot newptr) and that buffer's bytes
RECURSIVE contiguous_next(_, _, _, _)
contiguous_next(h, v, bytepos, newptr) ==
  IF iscontiguous(v) THEN
    [view |-> NumpyArray(v.identities, v.parameters, newptr, v.shape,
                         v.strides, 0, v.itemsize, v.format, v.dtype,
                         "cpu_kernels"),
     alloc |-> <<NumpyArray_contiguous_copy_64(h[v.ptr], Len(bytepos),
                   v.strides[1], v.byteoffset, bytepos)>>]
  ELSE IF Len(v.shape) = 1 THEN
    [view |-> NumpyArray(v.identities, v.parameters, newptr, v.shape,
                         <<v.itemsize>>, 0, v.itemsize, v.format, v.dtype,
                         "cpu_kernels"),
     alloc |-> <<NumpyArray_contiguous_copy_64(h[v.ptr], Len(bytepos),
                   v.itemsize, v.byteoffset, bytepos)>>]
  ELSE
    LET next == NumpyArray(v.identities, v.parameters, v.ptr,
                           flatten_shape(v.shape), flatten_strides(v.strides),
                           v.byteoffset, v.itemsize, v.format, v.dtype,
                           "cpu_kernels")
        nextbytepos == NumpyArray_contiguous_next_64(bytepos, Len(bytepos),
                                                     v.shape[2], v.strides[2])
        r == contiguous_next(h, next, nextbytepos, newptr)
        out == r.view
        outstrides == <<v.shape[2] * out.strides[1]>> \o out.strides
    IN [view |-> NumpyArray(out.identities, out.parameters, out.ptr, v.shape,
                            outstrides, out.byteoffset, v.itemsize, v.format,
                            v.dtype, "cpu_kernels"),
        alloc |-> r.alloc]

\* contiguous(): an alias when already contiguous (alloc = <<>>), otherwise a
\* gathered copy in a new buffer
contiguous(h, v) ==
  IF iscontiguous(v) THEN
    [view |-> NumpyArray(v.identities, v.parameters, v.ptr, v.shape,
                         v.strides, v.byteoffset, v.itemsize, v.format,
                         v.dtype, "cpu_kernels"),
     alloc |-> <<>>]
  ELSE
    contiguous_next(h, v,
                    NumpyArray_contiguous_init_64(v.shape[1], v.strides[1]),
                    Len(h) + 1)

(***************************************************************************)
(* Copies.                                                                 *)
(***************************************************************************)
shallow_copy(v) ==
  NumpyArray(v.identities, v.parameters, v.ptr, v.shape, v.strides,
             v.byteoffset, v.itemsize, v.format, v.dtype, "cpu_kernels")

\* Identities::deep_copy gives an equal identities array in new storage; the
\* model does not track the identities' storage
Identities_deep_copy(ids) == ids

deep_copy(h, v, copyarrays, copyindexes, copyidentities) ==
  LET tmp == contiguous(h, v)
      src == IF copyarrays THEN tmp.view ELSE v
      identities == IF copyidentities /\ v.identities.present
                      THEN Identities_deep_copy(v.identities)
                      ELSE v.identities
  IN [view |-> NumpyArray(identities, v.parameters, src.ptr, src.shape,
                          src.strides, src.byteoffset, v.itemsize, v.format,
                          v.dtype, "cpu_kernels"),
      alloc |-> IF copyarrays THEN tmp.alloc ELSE <<>>]

(***************************************************************************)
(* Typed access to buffer bytes (reinterpret_cast<T*>), little-endian.     *)
(* Bit sequences are most-significant bit first.                           *)
(***************************************************************************)
Zeros(n) == [i \in 1..n |-> 0]

Ones(n) == [i \in 1..n |-> 1]

RECURSIVE BitLen(_)
BitLen(a) == IF a = 0 THEN 0 ELSE 1 + BitLen(a \div 2)

\* the w low bits of a >= 0
IntToBits(a, w) == [i \in 1..w |-> (a \div (2 ^ (w - i))) % 2]

RECURSIVE BitsToInt(_)
BitsToInt(bits) ==
  IF bits = <<>> THEN 0
  ELSE 2 * BitsToInt(SubSeq(bits, 1, Len(bits) - 1)) + bits[Len(bits)]

BytesToBits(bytes) ==
  [i \in 1..(8 * Len(bytes)) |->
     (bytes[Len(bytes) - ((i - 1) \div 8)] \div (2 ^ (7 - ((i - 1) % 8)))) % 2]

BitsToBytes(bits) ==
  [k \in 1..(Len(bits) \div 8) |->
     BitsToInt(SubSeq(bits, Len(bits) - 8 * k + 1, Len(bits) - 8 * k + 8))]

IsIntegerDtype(dt) ==
  dt \in {"int8", "int16", "int32", "int64",
          "uint8", "uint16", "uint32", "uint64"}

\* variant: always zero-extends
CastIntBytes_zeroextend(bytes, from, to) ==
  [k \in 1..dtype_to_itemsize(to) |-> IF k <= Len(bytes) THEN bytes[k] ELSE 0]

\* (TO)x for integer types: sign- or zero-extend, then keep the low bytes
CastIntBytes(bytes, from, to) ==
  LET fill == IF is_signed(from) /\ bytes[Len(bytes)] >= 128 THEN 255 ELSE 0
  IN [k \in 1..dtype_to_itemsize(to) |->
        IF k <= Len(bytes) THEN bytes[k] ELSE fill]

\* the integer a little-endian byte sequence holds, from byte k upwards
RECURSIVE BytesToNat(_, _)
BytesToNat(bytes, k) ==
  IF k > Len(bytes) THEN 0 ELSE bytes[k] + 256 * BytesToNat(bytes, k + 1)

\* the value of an integer element (two's complement when signed)
DecodeInt(bytes, dt) ==
  IF is_signed(dt) /\ bytes[Len(bytes)] >= 128
    THEN -(1 + BytesToNat([k \in 1..Len(bytes) |-> 255 - bytes[k]], 1))
    ELSE BytesToNat(bytes, 1)

\* IEEE 754 encoding of m * 2^e2 with ebits exponent bits and pbits
\* fraction bits, for a significand of at most pbits + 1 bits
EncodeFloat(m, e2, ebits, pbits) ==
  IF m = 0 THEN BitsToBytes(Zeros(1 + ebits + pbits))
  ELSE LET a == Abs(m)
           e == BitLen(a) - 1
           biased == e + e2 + (2 ^ (ebits - 1)) - 1
       IN BitsToBytes(<<IF m < 0 THEN 1 ELSE 0>> \o IntToBits(biased, ebits)
                      \o IntToBits(a, e) \o Zeros(pbits - e))

FloatEbits(dt) == IF dt = "float32" THEN 8 ELSE 11

FloatPbits(dt) == IF dt = "float32" THEN 23 ELSE 52

\* (double)x for a float x
WidenFloatBytes(bytes) ==
  LET bits == BytesToBits(bytes)
      sign == <<bits[1]>>
      exp == BitsToInt(SubSeq(bits, 2, 9))
      frac == SubSeq(bits, 10, 32)
      lead == IF \E p \in 1..23 : frac[p] = 1
                THEN CHOOSE p \in 1..23 :
                       frac[p] = 1 /\ \A q \in 1..(p - 1) : frac[q] = 0
                ELSE 0
  IN BitsToBytes(
       IF exp = 255 THEN sign \o Ones(11) \o frac \o Zeros(29)
       ELSE IF exp > 0 THEN sign \o IntToBits(exp + 896, 11) \o frac \o Zeros(29)
       ELSE IF lead = 0 THEN sign \o Zeros(63)
       ELSE sign \o IntToBits(897 - lead, 11) \o SubSeq(frac, lead + 1, 23)
                 \o Zeros(29 + lead))

\* kernel NumpyArray_fill<FROM, TO>: toptr[i] = (TO)fromptr[i], one element
NumpyArray_fill(bytes, from, to) ==
  IF from = to THEN bytes
  ELSE IF IsIntegerDtype(to) THEN CastIntBytes(bytes, from, to)
  ELSE IF from = "float32" THEN WidenFloatBytes(bytes)
  ELSE EncodeFloat(DecodeInt(bytes, from), 0, FloatEbits(to), FloatPbits(to))

\* kernel NumpyArray_fill_frombool<TO>: toptr[i] = (TO)(fromptr[i] != 0)
NumpyArray_fill_frombool(bytes, to) ==
  LET x == IF bytes[1] # 0 THEN 1 ELSE 0
  IN IF to \in {"float32", "float64"}
       THEN EncodeFloat(x, 0, FloatEbits(to), FloatPbits(to))
       ELSE <<x>> \o Zeros(dtype_to_itemsize(to) - 1)

(***************************************************************************)
(* mergeable and merge (other is a NumpyArray: the branches for sibling    *)
(* node types are outside this model).                                     *)
(***************************************************************************)
NumericDtypes == Dtypes \ {"NOT_PRIMITIVE"}

\* the dtype test of mergeable (lines 1484-1517): FALSE means "return false"
mergeable_dtypes(dtype_, other_dtype) ==
  \/ dtype_ \in NumericDtypes
  \/ dtype_ = "boolean"
  \/ other_dtype \in (NumericDtypes \ {"boolean"})

\* variant: never sees a difference in the inner extents
InnerShapesDiffer_never(shape_, other_shape) == FALSE

\* inner extents, scanned as the code scans them (i = size-1 down to 1)
InnerShapesDiffer(shape_, other_shape) ==
  \E i \in 2..Len(shape_) : shape_[i] # other_shape[i]

mergeable(self, other, mergebool) ==
  IF ~parameters_equal(self.parameters, other.parameters) THEN FALSE
  ELSE IF ndim(self) = 0 THEN FALSE
  ELSE IF ndim(self) # ndim(other) THEN FALSE
  ELSE IF /\ ~mergebool
          /\ self.dtype # other.dtype
          /\ (self.dtype = "boolean" \/ other.dtype = "boolean") THEN FALSE
  ELSE IF ~mergeable_dtypes(self.dtype, other.dtype) THEN FALSE
  ELSE IF InnerShapesDiffer(self.shape, other.shape) THEN FALSE
  ELSE TRUE

Int3264 == {"uint64", "int64", "uint32", "int32"}

\* variant: the result takes the receiver's dtype
merge_dtype_receiver(a, b) == a

\* variant: every integer merged with a complex type gives complex128
merge_dtype_intcomplex(a, b) ==
  IF a = "complex256" \/ b = "complex256" THEN "complex256"
  ELSE IF (IsIntegerDtype(a) /\ is_complex(b))
          \/ (IsIntegerDtype(b) /\ is_complex(a)) THEN "complex128"
  ELSE IF is_complex(a) THEN a
  ELSE IF is_complex(b) THEN b
  ELSE IF a = "boolean" /\ b = "boolean" THEN "boolean"
  ELSE "float64"

\* the promotion chain of merge (lines 1617-1769); "NOT_PRIMITIVE" when no
\* branch matches (the final else, which throws)
merge_dtype(a, b) ==
  IF a = "complex256" \/ b = "complex256" THEN "complex256"
  ELSE IF (a = "float128" /\ is_complex(b)) \/ (b = "float128" /\ is_complex(a))
    THEN "complex256"
  ELSE IF a = "complex128" \/ b = "complex128" THEN "complex128"
  ELSE IF \/ (a \in ({"float64"} \cup Int3264) /\ is_complex(b))
          \/ (b \in ({"float64"} \cup Int3264) /\ is_complex(a))
    THEN "complex128"
  ELSE IF a = "complex64" \/ b = "complex64" THEN "complex64"
  ELSE IF a = "float128" \/ b = "float128" THEN "float128"
  ELSE IF a = "float64" \/ b = "float64" THEN "float64"
  ELSE IF (a = "float32" /\ b \in Int3264) \/ (b = "float32" /\ a \in Int3264)
    THEN "float64"
  ELSE IF a = "float32" \/ b = "float32" THEN "float32"
  ELSE IF (a = "float16" /\ b \in Int3264) \/ (b = "float16" /\ a \in Int3264)
    THEN "float64"
  ELSE IF \/ (a = "float16" /\ b \in {"uint16", "int16"})
          \/ (b = "float16" /\ a \in {"uint16", "int16"})
    THEN "float32"
  ELSE IF a = "float16" \/ b = "float16" THEN "float16"
  ELSE IF (a = "uint64" /\ is_signed(b)) \/ (b = "uint64" /\ is_signed(a))
    THEN "float64"
  ELSE IF a = "uint64" \/ b = "uint64" THEN "uint64"
  ELSE IF a = "int64" \/ b = "int64" THEN "int64"
  ELSE IF (a = "uint32" /\ is_signed(b)) \/ (b = "uint32" /\ is_signed(a))
    THEN "int64"
  ELSE IF a = "uint32" \/ b = "uint32" THEN "uint32"
  ELSE IF a = "int32" \/ b = "int32" THEN "int32"
  ELSE IF (a = "uint16" /\ is_signed(b)) \/ (b = "uint16" /\ is_signed(a))
    THEN "int32"
  ELSE IF a = "uint16" \/ b = "uint16" THEN "uint16"
  ELSE IF a = "int16" \/ b = "int16" THEN "int16"
  ELSE IF (a = "uint8" /\ is_signed(b)) \/ (b = "uint8" /\ is_signed(a))
    THEN "int16"
  ELSE IF a = "uint8" \/ b = "uint8" THEN "uint8"
  ELSE IF a = "int8" \/ b = "int8" THEN "int8"
  ELSE IF a = "boolean" /\ b = "boolean" THEN "boolean"
  ELSE "NOT_PRIMITIVE"

\* variant: the result keeps the receiver's shape
merge_shape_receiver(shape_, other_shape) == shape_

\* the result shape and strides built by merge (lines 1773-1789)
merge_shape(shape_, other_shape) ==
  <<shape_[1] + other_shape[1]>> \o SubSeq(shape_, 2, Len(shape_))

merge_strides(shape_, itemsize) ==
  [d \in 1..Len(shape_) |->
     itemsize * Product(SubSeq(shape_, d + 1, Len(shape_)))]

\* the source dtypes that have a case in the fill switch of result dtype to
\* (lines 1804-2781); float16 sources throw inside the float cases
fill_cases(to) ==
  CASE to = "boolean" -> {"boolean"}
    [] to = "int8" -> {"boolean", "int8"}
    [] to = "int16" -> {"boolean", "int8", "int16", "uint8"}
    [] to = "int32" -> {"boolean", "int8", "int16", "int32", "uint8", "uint16"}
    [] to = "int64" -> {"boolean", "int8", "int16", "int32", "int64",
                        "uint8", "uint16", "uint32"}
    [] to = "uint8" -> {"boolean", "uint8"}
    [] to = "uint16" -> {"boolean", "uint8", "uint16"}
    [] to = "uint32" -> {"boolean", "uint8", "uint16", "uint32"}
    [] to = "uint64" -> {"boolean", "uint8", "uint16", "uint32", "uint64"}
    [] to = "float32" -> {"boolean", "int8", "int16", "uint8", "uint16",
                          "float32"}
    [] to = "float64" -> {"boolean", "int8", "int16", "int32", "int64",
                          "uint8", "uint16", "uint32", "uint64",
                          "float32", "float64"}
    [] OTHER -> {}

\* variant: only the float cases throw
merge_to_unimplemented_floats == {"float16", "float128"}

\* the result dtypes whose case throws before any fill
merge_to_unimplemented ==
  {"float16", "float128", "complex64", "complex128", "complex256"}

\* one fill call: the n elements of dtype from read at fromptr[fromoffset..]
\* converted to dtype to, as bytes
fill_region(fromptr, fromoffset, n, from, to) ==
  LET fsz == dtype_to_itemsize(from)
      elem(i) == SubSeq(fromptr, (fromoffset + i) * fsz + 1,
                        (fromoffset + i) * fsz + fsz)
      conv == [i \in 1..n |->
                 IF from = "boolean"
                   THEN NumpyArray_fill_frombool(elem(i - 1), to)
                   ELSE NumpyArray_fill(elem(i - 1), from, to)]
  IN Flatten(conv)

\* a region no fill call writes: the bytes ptr_alloc left there
unwritten_region(n, to, uninit) ==
  [k \in 1..(n * dtype_to_itemsize(to)) |-> uninit.byte]

Thrown(msg, dtype) ==
  [err |-> msg, kind |-> "throw", dtype |-> dtype, view |-> <<>>,
   alloc |-> <<>>]

\* the operands the kernels of merge read: contiguous() of the receiver and
\* of the argument, each with the buffer it allocates
merge_operands(h, self, other) ==
  LET contiguous_self == contiguous(h, self)
  IN <<contiguous_self, contiguous(h \o contiguous_self.alloc, other)>>

merge_bytes(h, self, other) ==
  LET cs == merge_operands(h, self, other)[1]
      h1 == h \o cs.alloc
      co == merge_operands(h, self, other)[2]
      h2 == h1 \o co.alloc
      bytes ==
        [k \in 1..length(self) |-> h2[cs.view.ptr][cs.view.byteoffset + k]]
        \o [k \in 1..length(other) |-> h2[co.view.ptr][co.view.byteoffset + k]]
  IN [err |-> "", kind |-> "NumpyArray", dtype |-> self.dtype,
      view |-> NumpyArray(NoIdentities, self.parameters, Len(h) + 1,
                          <<length(self) + length(other)>>, <<1>>, 0, 1,
                          self.format, self.dtype, "cpu_kernels"),
      alloc |-> <<bytes>>]

\* the promotion and the fill switches of merge (lines 1617-2781), reading
\* the operands contiguous() returned
merge_fill(h, self, other, uninit, operands) ==
  LET dtype == merge_dtype(self.dtype, other.dtype)
      itemsize == dtype_to_itemsize(dtype)
      self_flatlength == Product(self.shape)
      other_flatlength ==
        other.shape[1] * Product(SubSeq(self.shape, 2, Len(self.shape)))
      cs == operands[1]
      co == operands[2]
      h2 == h \o cs.alloc \o co.alloc
      self_offset == cs.view.byteoffset \div cs.view.itemsize
      other_offset == co.view.byteoffset \div co.view.itemsize
      self_case == self.dtype \in fill_cases(dtype)
      other_case == other.dtype \in fill_cases(dtype)
      self_bytes ==
        IF self_case
          THEN fill_region(h2[cs.view.ptr], self_offset, self_flatlength,
                           self.dtype, dtype)
          ELSE unwritten_region(self_flatlength, dtype, uninit)
      other_bytes ==
        IF other_case
          THEN fill_region(h2[co.view.ptr], other_offset, other_flatlength,
                           other.dtype, dtype)
          ELSE unwritten_region(other_flatlength, dtype, uninit)
  IN IF dtype = "NOT_PRIMITIVE"
       THEN Thrown("cannot merge Numpy format", dtype)
     ELSE IF InnerShapesDiffer(self.shape, other.shape)
       THEN Thrown("cannot merge arrays with different shapes", dtype)
     ELSE IF dtype \in merge_to_unimplemented
       THEN Thrown("FIXME: merge to " \o dtype \o " not implemented", dtype)
     ELSE IF dtype \in {"float32", "float64"}
             /\ (self.dtype = "float16"
                  \/ (other.dtype = "float16" /\ (self_case \/ ~uninit.throws)))
       THEN Thrown("FIXME: merge from float16 not implemented", dtype)
     ELSE IF ~self_case /\ uninit.throws
       THEN Thrown("uninitialized struct Error", dtype)
     ELSE
       [err |-> "", kind |-> "NumpyArray", dtype |-> dtype,
        view |-> NumpyArray(NoIdentities, self.parameters, Len(h) + 1,
                            merge_shape(self.shape, other.shape),
                            merge_strides(self.shape, itemsize), 0,
                            itemsize, dtype_to_format(dtype), dtype,
                            "cpu_kernels"),
        alloc |-> <<self_bytes \o other_bytes>>]

\* merge; uninit resolves what an uninitialized struct Error and
\* uninitialized output bytes turn out to be when no switch case matches
merge(h, self, other, uninit) ==
  IF ~parameters_equal(self.parameters, other.parameters)
    THEN [err |-> "", kind |-> "merge_as_union", dtype |-> "NOT_PRIMITIVE",
          view |-> <<>>, alloc |-> <<>>]
  ELSE IF ndim(self) = 0
    THEN Thrown("cannot merge Numpy scalars", "NOT_PRIMITIVE")
  ELSE IF /\ (parameter_equals(self.parameters, "byte")
               \/ parameter_equals(self.parameters, "char"))
          /\ (parameter_equals(other.parameters, "byte")
               \/ parameter_equals(other.parameters, "char"))
          /\ ndim(self) = 1 /\ ndim(other) = 1
          /\ self.itemsize = 1 /\ other.itemsize = 1
    THEN merge_bytes(h, self, other)
  ELSE IF ndim(self) # ndim(other)
    THEN Thrown("cannot merge arrays with different shapes", "NOT_PRIMITIVE")
  ELSE
    CHOOSE r \in {merge_fill(h, self, other, uninit, operands) :
                     operands \in {merge_operands(h, self, other)}} : TRUE

(***************************************************************************)
(* Slicing.  A Slice is a sequence of items; every item is a record of     *)
(* the same fields, of which each kind reads its own.                      *)
(***************************************************************************)
SliceItem(kind) ==
  [kind |-> kind, at |-> 0, start |-> 0, stop |-> 0, step |-> 0,
   hasstart |-> FALSE, hasstop |-> FALSE, hasstep |-> FALSE,
   shape |-> <<>>, index |-> <<>>]

SliceAt(at) == [SliceItem("at") EXCEPT !.at = at]

\* a range with explicit start, stop and step
SliceRange(start, stop, step) ==
  [SliceItem("range") EXCEPT !.start = start, !.stop = stop, !.step = step,
                             !.hasstart = TRUE, !.hasstop = TRUE,
                             !.hasstep = TRUE]

\* a range whose start and stop are Slice::none()
SliceRangeNone(step) ==
  [SliceItem("range") EXCEPT !.step = step, !.hasstep = TRUE]

SliceEllipsis == SliceItem("ellipsis")

SliceNewAxis == SliceItem("newaxis")

SliceField == SliceItem("field")

SliceMissing64 == SliceItem("missing")

SliceJagged64 == SliceItem("jagged")

SliceFields == SliceItem("fields")

\* an integer array index of the given shape, its values in C order
SliceArray64(shape, index) ==
  [SliceItem("array") EXCEPT !.shape = shape, !.index = index]

\* Slice::dimlength: the number of items that consume one dimension
RECURSIVE dimlength(_)
dimlength(slice) ==
  IF slice = <<>> THEN 0
  ELSE (IF Head(slice).kind \in {"at", "range", "array"} THEN 1 ELSE 0)
       + dimlength(Tail(slice))

\* Slice::isadvanced: some item is an array
isadvanced(slice) == \E k \in 1..Len(slice) : slice[k].kind = "array"

\* the result of an operation that throws
Fail(msg) == [err |-> msg, view |-> <<>>, alloc |-> <<>>]

\* the result of an operation that returns a View over an existing buffer
Ok(view) == [err |-> "", view |-> view, alloc |-> <<>>]

\* kernel::regularize_rangeslice: <<start, stop>> after normalisation
regularize_rangeslice(start, stop, posstep, hasstart, hasstop, len) ==
  IF posstep
    THEN LET s1 == IF ~hasstart THEN 0
                   ELSE IF start < 0 THEN start + len ELSE start
             s2 == IF s1 < 0 THEN 0 ELSE s1
             s3 == IF s2 > len THEN len ELSE s2
             e1 == IF ~hasstop THEN len
                   ELSE IF stop < 0 THEN stop + len ELSE stop
             e2 == IF e1 < 0 THEN 0 ELSE e1
             e3 == IF e2 > len THEN len ELSE e2
             e4 == IF e3 < s3 THEN s3 ELSE e3
         IN <<s3, e4>>
    ELSE LET s1 == IF ~hasstart THEN len - 1
                   ELSE IF start < 0 THEN start + len ELSE start
             s2 == IF s1 < -1 THEN -1 ELSE s1
             s3 == IF s2 > len - 1 THEN len - 1 ELSE s2
             e1 == IF ~hasstop THEN -1
                   ELSE IF stop < 0 THEN stop + len ELSE stop
             e2 == IF e1 < -1 THEN -1 ELSE e1
             e3 == IF e2 > len - 1 THEN len - 1 ELSE e2
             e4 == IF e3 > s3 THEN s3 ELSE e3
         IN <<s3, e4>>

\* Identities::getitem_range_nowrap
Identities_getitem_range_nowrap(identities, start, stop) ==
  [present |-> TRUE, ids |-> SubSeq(identities.ids, start + 1, stop)]

\* NumpyArray::getitem_at_nowrap
getitem_at_nowrap(v, at) ==
  IF v.identities.present /\ at >= Len(v.identities.ids)
    THEN Fail("index out of range")
    ELSE Ok(NumpyArray(IF v.identities.present
                         THEN Identities_getitem_range_nowrap(
                                v.identities, at, at + 1)
                         ELSE NoIdentities,
                       v.parameters, v.ptr, Tail(v.shape), Tail(v.strides),
                       v.byteoffset + v.strides[1] * at, v.itemsize,
                       v.format, v.dtype, "cpu_kernels"))

\* variant: no wraparound of negative indices
getitem_at_nowraparound(v, at) ==
  IF at < 0 \/ at >= v.shape[1]
    THEN Fail("index out of range")
    ELSE getitem_at_nowrap(v, at)

\* NumpyArray::getitem_at
getitem_at(v, at) ==
  LET regular_at == IF at < 0 THEN at + v.shape[1] ELSE at
  IN IF regular_at < 0 \/ regular_at >= v.shape[1]
       THEN Fail("index out of range")
       ELSE getitem_at_nowrap(v, regular_at)

\* variant: the byte offset is not advanced to start
getitem_range_nowrap_nooffset(v, start, stop) ==
  IF v.identities.present /\ stop > Len(v.identities.ids)
    THEN Fail("index out of range")
    ELSE Ok(NumpyArray(IF v.identities.present
                         THEN Identities_getitem_range_nowrap(
                                v.identities, start, stop)
                         ELSE NoIdentities,
                       v.parameters, v.ptr,
                       <<stop - start>> \o Tail(v.shape), v.strides,
                       v.byteoffset, v.itemsize, v.format, v.dtype,
                       "cpu_kernels"))

\* NumpyArray::getitem_range_nowrap
getitem_range_nowrap(v, start, stop) ==
  IF v.identities.present /\ stop > Len(v.identities.ids)
    THEN Fail("index out of range")
    ELSE Ok(NumpyArray(IF v.identities.present
                         THEN Identities_getitem_range_nowrap(
                                v.identities, start, stop)
                         ELSE NoIdentities,
                       v.parameters, v.ptr,
                       <<stop - start>> \o Tail(v.shape), v.strides,
                       v.byteoffset + v.strides[1] * start, v.itemsize,
                       v.format, v.dtype, "cpu_kernels"))

\* NumpyArray::getitem_range
getitem_range(v, start, stop, hasstart, hasstop) ==
  LET r == regularize_rangeslice(start, stop, TRUE, hasstart, hasstop,
                                 v.shape[1])
  IN getitem_range_nowrap(v, r[1], r[2])

\* variant: the field name is ignored
getitem_field_ignored(v) == Ok(v)

\* NumpyArray::getitem_field
getitem_field(v) == Fail("cannot slice NumpyArray by field name")

\* NumpyArray::getitem_fields
getitem_fields(v) == Fail("cannot slice NumpyArray by field names")

\* the View with its first dimension dropped into the second
flatten_view(v, identities, byteoffset) ==
  NumpyArray(identities, v.parameters, v.ptr, flatten_shape(v.shape),
             flatten_strides(v.strides), byteoffset, v.itemsize, v.format,
             v.dtype, "cpu_kernels")

\* variant: the quotient rounded down
lenhead_floor(start, stop, step) == Abs(start - stop) \div Abs(step)

\* the extent of a range of the given step between start and stop
lenhead(start, stop, step) ==
  LET numer == Abs(start - stop)
      denom == Abs(step)
  IN (numer \div denom) + (IF numer % denom # 0 THEN 1 ELSE 0)

\* variant: the Ellipsis stops at the length of the tail, NewAxis items
\* included
ellipsis_stops_taillength(depth, tail) == tail = <<>> \/ depth - 1 = Len(tail)

\* the test of the SliceEllipsis overloads of getitem_bystrides and
\* getitem_next on a View of depth dimensions: the Ellipsis is dropped,
\* otherwise a whole Range is put in front of it
ellipsis_stops(depth, tail) == tail = <<>> \/ depth - 1 = dimlength(tail)

\* the number of times the SliceEllipsis overload is entered while a slice
\* is resolved on a View of depth dimensions (the leading dimension of
\* getitem_wrap included): the At, Range and Array overloads throw below 2
\* dimensions and otherwise recurse on a View of one dimension less, the
\* NewAxis overload recurses on the same View
RECURSIVE getitem_ellipsis_steps(_, _)
getitem_ellipsis_steps(depth, slice) ==
  IF slice = <<>> THEN 0
  ELSE IF Head(slice).kind \in {"at", "range", "array"}
    THEN (IF depth < 2 THEN 0
          ELSE getitem_ellipsis_steps(depth - 1, Tail(slice)))
  ELSE IF Head(slice).kind = "ellipsis"
    THEN 1 + (IF ellipsis_stops(depth, Tail(slice))
                THEN getitem_ellipsis_steps(depth, Tail(slice))
                ELSE getitem_ellipsis_steps(
                       depth, <<SliceRangeNone(1)>> \o slice))
  ELSE IF Head(slice).kind = "newaxis"
    THEN getitem_ellipsis_steps(depth, Tail(slice))
  ELSE 0

\* NumpyArray::getitem_bystrides, all overloads: the head of the slice
\* selects the overload, rows is the extent of the result's first dimension
RECURSIVE getitem_bystrides(_, _, _)
getitem_bystrides(v, slice, rows) ==
  IF slice = <<>>
    THEN Ok(NumpyArray(v.identities, v.parameters, v.ptr, v.shape,
                       v.strides, v.byteoffset, v.itemsize, v.format,
                       v.dtype, "cpu_kernels"))
  ELSE
  LET head == Head(slice)
      tail == Tail(slice)
  IN CASE head.kind = "at" ->
            IF ndim(v) < 2 THEN Fail("too many dimensions in slice")
            ELSE
            LET i == IF head.at < 0 THEN head.at + v.shape[2] ELSE head.at
            IN IF i < 0 \/ i >= v.shape[2]
                 THEN Fail("index out of range")
                 ELSE
                 LET next == flatten_view(v, v.identities, v.byteoffset + i * v.strides[2])
                     out == getitem_bystrides(next, tail, rows)
                 IN IF out.err # "" THEN out
                    ELSE Ok(NumpyArray(out.view.identities,
                                       out.view.parameters, out.view.ptr,
                                       <<rows>> \o Tail(out.view.shape),
                                       out.view.strides,
                                       out.view.byteoffset, v.itemsize,
                                       v.format, v.dtype, "cpu_kernels"))
       [] head.kind = "range" ->
            IF ndim(v) < 2 THEN Fail("too many dimensions in slice")
            ELSE
            LET step == IF head.hasstep THEN head.step ELSE 1
                r == regularize_rangeslice(head.start, head.stop, step > 0,
                                           head.hasstart, head.hasstop,
                                           v.shape[2])
                n == lenhead(r[1], r[2], step)
                next == flatten_view(v, v.identities, v.byteoffset + r[1] * v.strides[2])
                out == getitem_bystrides(next, tail, rows * n)
            IN IF out.err # "" THEN out
               ELSE Ok(NumpyArray(out.view.identities, out.view.parameters,
                                  out.view.ptr,
                                  <<rows, n>> \o Tail(out.view.shape),
                                  <<v.strides[1], v.strides[2] * step>>
                                    \o Tail(out.view.strides),
                                  out.view.byteoffset, v.itemsize,
                                  v.format, v.dtype, "cpu_kernels"))
       [] head.kind = "ellipsis" ->
            IF ellipsis_stops(ndim(v), tail)
              THEN getitem_bystrides(v, tail, rows)
              ELSE getitem_bystrides(v, <<SliceRangeNone(1)>> \o slice,
                                     rows)
       [] head.kind = "newaxis" ->
            LET out == getitem_bystrides(v, tail, rows)
            IN IF out.err # "" THEN out
               ELSE Ok(NumpyArray(out.view.identities, out.view.parameters,
                                  out.view.ptr,
                                  <<rows, 1>> \o Tail(out.view.shape),
                                  <<out.view.strides[1]>>
                                    \o out.view.strides,
                                  out.view.byteoffset, v.itemsize,
                                  v.format, v.dtype, "cpu_kernels"))
       [] OTHER ->
            Fail("unrecognized slice item type for NumpyArray::getitem_bystrides")

\* variant: the byte offset of the source is ignored
NumpyArray_getitem_next_null_64_nooffset(fromptr, lencarry, stride, offset, pos) ==
  Flatten([i \in 1..lencarry |->
             SubSeq(fromptr, pos[i] * stride + 1, pos[i] * stride + stride)])

\* kernel: memcpy(&toptr[i*len], &fromptr[offset + pos[i]*len], len)
NumpyArray_getitem_next_null_64(fromptr, lencarry, stride, offset, pos) ==
  Flatten([i \in 1..lencarry |->
             SubSeq(fromptr, offset + pos[i] * stride + 1,
                    offset + pos[i] * stride + stride)])

\* kernel: nextcarry[i] = skip*carry[i] + at
NumpyArray_getitem_next_at_64(carry, skip, at) ==
  [i \in 1..Len(carry) |-> skip * carry[i] + at]

\* kernel: nextcarry[i*lenhead + j] = skip*carry[i] + start + j*step
NumpyArray_getitem_next_range_64(carry, n, skip, start, step) ==
  [k \in 1..(Len(carry) * n) |->
     skip * carry[((k - 1) \div n) + 1] + start + ((k - 1) % n) * step]

\* kernel: nextadvanced[i*lenhead + j] = advanced[i]
NumpyArray_getitem_next_range_advanced_64(carry, advanced, n) ==
  [k \in 1..(Len(carry) * n) |-> advanced[((k - 1) \div n) + 1]]

\* kernel: negative indices wrap once; "" when all are then in range
regularize_arrayslice_64(flathead, len) ==
  LET wrapped == [j \in 1..Len(flathead) |->
                    IF flathead[j] < 0 THEN flathead[j] + len
                    ELSE flathead[j]]
  IN IF \E j \in 1..Len(wrapped) : wrapped[j] < 0 \/ wrapped[j] >= len
       THEN [err |-> "index out of range", flathead |-> <<>>]
       ELSE [err |-> "", flathead |-> wrapped]

\* kernel: nextcarry[i*len + j] = skip*carry[i] + flathead[j]
NumpyArray_getitem_next_array_64(carry, flathead, skip) ==
  [k \in 1..(Len(carry) * Len(flathead)) |->
     skip * carry[((k - 1) \div Len(flathead)) + 1]
     + flathead[((k - 1) % Len(flathead)) + 1]]

\* kernel: nextadvanced[i*len + j] = j
NumpyArray_getitem_next_array_64_advanced(carry, flathead) ==
  [k \in 1..(Len(carry) * Len(flathead)) |-> (k - 1) % Len(flathead)]

\* variant: the index read in step with the carry, whatever the advanced
\* index says
NumpyArray_getitem_next_array_advanced_64_instep(carry, advanced, flathead, skip) ==
  [i \in 1..Len(carry) |->
     skip * carry[i] + flathead[((i - 1) % Len(flathead)) + 1]]

\* kernel: nextcarry[i] = skip*carry[i] + flathead[advanced[i]]
NumpyArray_getitem_next_array_advanced_64(carry, advanced, flathead, skip) ==
  [i \in 1..Len(carry) |-> skip * carry[i] + flathead[advanced[i] + 1]]

\* Identities::getitem_carry_64
Identities_getitem_carry_64(identities, carry) ==
  IF \E i \in 1..Len(carry) : carry[i] >= Len(identities.ids)
    THEN [err |-> "index out of range", identities |-> NoIdentities]
    ELSE [err |-> "",
          identities |-> [present |-> TRUE,
                          ids |-> [i \in 1..Len(carry) |->
                                     identities.ids[carry[i] + 1]]]]

\* the strides of an array-indexed result: one stride per extent of the
\* index array, innermost first, in front of the strides of out
RECURSIVE array_outstrides(_, _)
array_outstrides(arrayshape, outstrides) ==
  IF arrayshape = <<>> THEN outstrides
  ELSE array_outstrides(
         SubSeq(arrayshape, 1, Len(arrayshape) - 1),
         <<arrayshape[Len(arrayshape)] * outstrides[1]>> \o outstrides)

\* SliceArray64::length
SliceArray64_length(array) ==
  IF array.shape = <<>> THEN 1 ELSE array.shape[1]

\* NumpyArray::getitem_next with a carry, all overloads: h is the heap, newptr
\* the heap slot of the buffer the null head allocates
RECURSIVE getitem_next(_, _, _, _, _, _, _, _, _)
getitem_next(h, v, slice, carry, advanced, rows, stride, first, newptr) ==
  IF slice = <<>>
    THEN LET ids == IF v.identities.present
                      THEN Identities_getitem_carry_64(v.identities, carry)
                      ELSE [err |-> "", identities |-> NoIdentities]
         IN IF ids.err # "" THEN Fail(ids.err)
            ELSE [err |-> "",
                  view |-> NumpyArray(ids.identities, v.parameters, newptr,
                                      <<Len(carry)>> \o Tail(v.shape),
                                      <<stride>> \o Tail(v.strides), 0,
                                      v.itemsize, v.format, v.dtype,
                                      "cpu_kernels"),
                  alloc |-> <<NumpyArray_getitem_next_null_64(
                                h[v.ptr], Len(carry), stride, v.byteoffset,
                                carry)>>]
  ELSE
  LET head == Head(slice)
      tail == Tail(slice)
      next == flatten_view(v, IF first THEN v.identities ELSE NoIdentities,
                           v.byteoffset)
  IN CASE head.kind = "at" ->
            IF ndim(v) < 2 THEN Fail("too many dimensions in slice")
            ELSE
            LET regular_at == IF head.at < 0 THEN head.at + v.shape[2]
                              ELSE head.at
            IN IF ~(0 <= regular_at /\ regular_at < v.shape[2])
                 THEN Fail("index out of range")
                 ELSE
                 LET nextcarry == NumpyArray_getitem_next_at_64(
                                    carry, v.shape[2], regular_at)
                     out == getitem_next(h, next, tail, nextcarry, advanced,
                                         rows, next.strides[1], FALSE,
                                         newptr)
                 IN IF out.err # "" THEN out
                    ELSE [out EXCEPT !.view =
                            NumpyArray(out.view.identities,
                                       out.view.parameters, out.view.ptr,
                                       <<rows>> \o Tail(out.view.shape),
                                       out.view.strides,
                                       out.view.byteoffset, v.itemsize,
                                       v.format, v.dtype, "cpu_kernels")]
       [] head.kind = "range" ->
            IF ndim(v) < 2 THEN Fail("too many dimensions in slice")
            ELSE
            LET step == IF head.hasstep THEN head.step ELSE 1
                r == regularize_rangeslice(head.start, head.stop, step > 0,
                                           head.hasstart, head.hasstop,
                                           v.shape[2])
                n == lenhead(r[1], r[2], step)
                nextcarry == NumpyArray_getitem_next_range_64(
                               carry, n, v.shape[2], r[1], step)
                nextadvanced ==
                  IF advanced = <<>> THEN advanced
                  ELSE NumpyArray_getitem_next_range_advanced_64(
                         carry, advanced, n)
                out == getitem_next(h, next, tail, nextcarry, nextadvanced,
                                    rows * n, next.strides[1], FALSE,
                                    newptr)
            IN IF out.err # "" THEN out
               ELSE [out EXCEPT !.view =
                       NumpyArray(out.view.identities, out.view.parameters,
                                  out.view.ptr,
                                  <<rows, n>> \o Tail(out.view.shape),
                                  <<n * out.view.strides[1]>>
                                    \o out.view.strides,
                                  out.view.byteoffset, v.itemsize,
                                  v.format, v.dtype, "cpu_kernels")]
       [] head.kind = "ellipsis" ->
            IF ellipsis_stops(ndim(v), tail)
              THEN getitem_next(h, v, tail, carry, advanced, rows, stride,
                                FALSE, newptr)
              ELSE getitem_next(h, v, <<SliceRangeNone(1)>> \o slice, carry,
                                advanced, rows, stride, FALSE, newptr)
       [] head.kind = "newaxis" ->
            LET out == getitem_next(h, v, tail, carry, advanced, rows,
                                    stride, FALSE, newptr)
            IN IF out.err # "" THEN out
               ELSE [out EXCEPT !.view =
                       NumpyArray(out.view.identities, out.view.parameters,
                                  out.view.ptr,
                                  <<rows, 1>> \o Tail(out.view.shape),
                                  <<out.view.strides[1]>>
                                    \o out.view.strides,
                                  out.view.byteoffset, v.itemsize,
                                  v.format, v.dtype, "cpu_kernels")]
       [] head.kind = "array" ->
            IF ndim(v) < 2 THEN Fail("too many dimensions in slice")
            ELSE
            LET reg == regularize_arrayslice_64(head.index, v.shape[2])
            IN IF reg.err # "" THEN Fail(reg.err)
               ELSE IF advanced = <<>> THEN
                 LET nextcarry == NumpyArray_getitem_next_array_64(
                                    carry, reg.flathead, v.shape[2])
                     nextadvanced ==
                       NumpyArray_getitem_next_array_64_advanced(
                         carry, reg.flathead)
                     out == getitem_next(h, next, tail, nextcarry,
                                         nextadvanced,
                                         rows * Len(reg.flathead),
                                         next.strides[1], FALSE, newptr)
                 IN IF out.err # "" THEN out
                    ELSE [out EXCEPT !.view =
                            NumpyArray(IF Len(head.shape) = 1
                                         THEN out.view.identities
                                         ELSE NoIdentities,
                                       out.view.parameters, out.view.ptr,
                                       <<rows>> \o head.shape
                                         \o Tail(out.view.shape),
                                       array_outstrides(head.shape,
                                                        out.view.strides),
                                       out.view.byteoffset, v.itemsize,
                                       v.format, v.dtype, "cpu_kernels")]
               ELSE
                 LET nextcarry == NumpyArray_getitem_next_array_advanced_64(
                                    carry, advanced, reg.flathead,
                                    v.shape[2])
                     out == getitem_next(h, next, tail, nextcarry, advanced,
                                         rows * SliceArray64_length(head),
                                         next.strides[1], FALSE, newptr)
                 IN IF out.err # "" THEN out
                    ELSE [out EXCEPT !.view =
                            NumpyArray(out.view.identities,
                                       out.view.parameters, out.view.ptr,
                                       <<rows>> \o Tail(out.view.shape),
                                       out.view.strides,
                                       out.view.byteoffset, v.itemsize,
                                       v.format, v.dtype, "cpu_kernels")]
       [] head.kind = "field" ->
            Fail("cannot slice NumpyArray by a field name because it has no fields")
       [] head.kind = "fields" ->
            Fail("cannot slice NumpyArray by field names because it has no fields")
       [] head.kind = "missing" ->
            Fail("undefined operation: NumpyArray::getitem_next(missing) (defer to Content::getitem_next(missing))")
       [] head.kind = "jagged" ->
            Fail("FIXME: NumpyArray::getitem_next(jagged)")
       [] OTHER -> Fail("unrecognized slice item type")

\* the View with a leading dimension of extent 1 that getitem recurses on
getitem_wrap(v) ==
  NumpyArray(v.identities, v.parameters, v.ptr, <<1>> \o v.shape,
             <<v.shape[1] * v.strides[1]>> \o v.strides, v.byteoffset,
             v.itemsize, v.format, v.dtype, "cpu_kernels")

\* the result of getitem: out without its leading dimension
getitem_unwrap(v, out) ==
  NumpyArray(out.identities, out.parameters, out.ptr, Tail(out.shape),
             Tail(out.strides), out.byteoffset, v.itemsize, v.format,
             v.dtype, "cpu_kernels")

\* NumpyArray::getitem_too_general
getitem_too_general(slice) ==
  \E k \in 1..Len(slice) : slice[k].kind \in {"missing", "jagged"}

\* variant: the by-strides branch taken whatever the identities
getitem_branch_anyidentities(v, slice) ==
  IF isscalar(v) THEN "throw"
  ELSE IF getitem_too_general(slice)
    THEN (IF ndim(v) = 1 THEN "Content" ELSE "RegularArray")
  ELSE IF ~isadvanced(slice) THEN "bystrides"
  ELSE "next"

\* the branch NumpyArray::getitem(const Slice&) takes: it throws on a scalar,
\* hands a slice that is too general to Content::getitem (1 dimension) or to
\* the RegularArray of toRegularArray, and otherwise resolves the slice by
\* strides or by carry
getitem_branch(v, slice) ==
  IF isscalar(v) THEN "throw"
  ELSE IF getitem_too_general(slice)
    THEN (IF ndim(v) = 1 THEN "Content" ELSE "RegularArray")
  ELSE IF ~isadvanced(slice) /\ ~v.identities.present THEN "bystrides"
  ELSE "next"

\* variant: a scalar receiver is returned as it is
getitem_scalar_unchecked(h, v, slice) ==
  IF isscalar(v) THEN Ok(v)
  ELSE IF ~isadvanced(slice) /\ ~v.identities.present
    THEN LET out == getitem_bystrides(getitem_wrap(v), slice, 1)
         IN IF out.err # "" THEN out
            ELSE Ok(getitem_unwrap(v, out.view))
    ELSE LET safe == contiguous(h, v)
             out == getitem_next(h \o safe.alloc, getitem_wrap(safe.view),
                                 slice, <<0>>, <<>>, 1,
                                 safe.view.shape[1] * safe.view.strides[1],
                                 TRUE, Len(h) + Len(safe.alloc) + 1)
         IN IF out.err # "" THEN out
            ELSE [err |-> "", view |-> getitem_unwrap(v, out.view),
                  alloc |-> safe.alloc \o out.alloc]

\* NumpyArray::getitem(const Slice&), for slices that are not too general
getitem(h, v, slice) ==
  IF isscalar(v) THEN Fail("cannot get-item on a scalar")
  ELSE IF getitem_branch(v, slice) = "bystrides"
    THEN LET out == getitem_bystrides(getitem_wrap(v), slice, 1)
         IN IF out.err # "" THEN out
            ELSE Ok(getitem_unwrap(v, out.view))
    ELSE LET safe == contiguous(h, v)
             out == getitem_next(h \o safe.alloc, getitem_wrap(safe.view),
                                 slice, <<0>>, <<>>, 1,
                                 safe.view.shape[1] * safe.view.strides[1],
                                 TRUE, Len(h) + Len(safe.alloc) + 1)
         IN IF out.err # "" THEN out
            ELSE [err |-> "", view |-> getitem_unwrap(v, out.view),
                  alloc |-> safe.alloc \o out.alloc]

(***************************************************************************)
(* asslice: a 1-dimensional View as an index array.  The int64 values of   *)
(* the index are kept as their 8 bytes.                                    *)
(***************************************************************************)
\* a / b in C++ (rounded towards zero), for b > 0
CDiv(a, b) == IF a >= 0 THEN a \div b ELSE -((-a) \div b)

\* kernel: the number of elements of a boolean array that are not zero
NumpyArray_getitem_boolean_numtrue(fromptr, byteoffset, len, stride) ==
  Cardinality({k \in 0..(len - 1) : fromptr[byteoffset + k * stride + 1] # 0})

\* kernel: the positions of those elements, in increasing order
RECURSIVE NumpyArray_getitem_boolean_nonzero_64(_, _, _, _)
NumpyArray_getitem_boolean_nonzero_64(fromptr, byteoffset, len, stride) ==
  IF len = 0 THEN <<>>
  ELSE NumpyArray_getitem_boolean_nonzero_64(fromptr, byteoffset, len - 1,
                                             stride)
       \o (IF fromptr[byteoffset + (len - 1) * stride + 1] # 0
             THEN <<len - 1>> ELSE <<>>)

\* the 8 bytes of a non-negative int64
RECURSIVE NatToBytes(_, _)
NatToBytes(n, size) ==
  IF size = 0 THEN <<>> ELSE <<n % 256>> \o NatToBytes(n \div 256, size - 1)

\* NumpyArray::asslice: [err, index, frombool]
asslice(h, v) ==
  IF ndim(v) # 1
    THEN [err |-> "slice items can have all fixed-size dimensions (to follow NumPy's slice rules) or they can have all var-sized dimensions (for jagged indexing), but not both in the same slice item",
          index |-> <<>>, frombool |-> FALSE]
  ELSE IF v.dtype = "int64"
    THEN LET offset == CDiv(v.byteoffset, v.itemsize)
             stride == CDiv(v.strides[1], v.itemsize)
         IN [err |-> "",
             index |-> [k \in 1..length(v) |->
                          SubSeq(h[v.ptr], (offset + (k - 1) * stride) * 8 + 1,
                                 (offset + (k - 1) * stride) * 8 + 8)],
             frombool |-> FALSE]
  ELSE IF IsIntegerDtype(v.dtype)
    THEN LET contiguous_self == contiguous(h, v)
             offset == CDiv(contiguous_self.view.byteoffset, v.itemsize)
             filled == fill_region((h \o contiguous_self.alloc)[
                                     contiguous_self.view.ptr],
                                   offset, length(v), v.dtype, "int64")
         IN [err |-> "",
             index |-> [k \in 1..length(v) |->
                          SubSeq(filled, 8 * (k - 1) + 1, 8 * k)],
             frombool |-> FALSE]
  ELSE IF v.dtype = "boolean"
    THEN LET numtrue == NumpyArray_getitem_boolean_numtrue(
                          h[v.ptr], v.byteoffset, v.shape[1], v.strides[1])
             nonzero == NumpyArray_getitem_boolean_nonzero_64(
                          h[v.ptr], v.byteoffset, v.shape[1], v.strides[1])
         IN [err |-> "",
             index |-> [k \in 1..numtrue |-> NatToBytes(nonzero[k], 8)],
             frombool |-> TRUE]
  ELSE [err |-> "only arrays of integers or booleans may be used as a slice",
        index |-> <<>>, frombool |-> FALSE]

(***************************************************************************)
(* carry: the rows of the receiver at the positions of an Index64, copied  *)
(* into a new buffer strides_[0] bytes at a time.                          *)
(***************************************************************************)
carry(h, v, index) ==
  LET ids == IF v.identities.present
               THEN Identities_getitem_carry_64(v.identities, index)
               ELSE [err |-> "", identities |-> NoIdentities]
  IN IF ids.err # "" THEN Fail(ids.err)
     ELSE [err |-> "",
           view |-> NumpyArray(ids.identities, v.parameters, Len(h) + 1,
                               <<Len(index)>> \o Tail(v.shape), v.strides, 0,
                               v.itemsize, v.format, v.dtype, "cpu_kernels"),
           alloc |-> <<NumpyArray_getitem_next_null_64(
                         h[v.ptr], Len(index), v.strides[1], v.byteoffset,
                         index)>>]

(***************************************************************************)
(* copy_to: the View on another kernel library.                            *)
(***************************************************************************)
\* the dtypes whose case calls the typed copy kernel
copy_to_cases ==
  {"boolean", "int8", "int16", "int32", "int64", "uint8", "uint16",
   "uint32", "uint64", "float32", "float64"}

\* kernel::copy_to<T>: the first len elements of fromptr
kernel_copy_to(fromptr, len, size) == SubSeq(fromptr, 1, len * size)

copy_to(h, v, ptr_lib) ==
  IF v.ptr_lib = ptr_lib
    THEN Ok(NumpyArray(v.identities, v.parameters, v.ptr, v.shape, v.strides,
                       v.byteoffset, v.itemsize, v.format, v.dtype,
                       v.ptr_lib))
  ELSE IF v.dtype \in copy_to_cases
    THEN [err |-> "",
          view |-> NumpyArray(v.identities, v.parameters, Len(h) + 1,
                              v.shape, v.strides, v.byteoffset, v.itemsize,
                              v.format, v.dtype, ptr_lib),
          alloc |-> <<kernel_copy_to(h[v.ptr], Product(v.shape),
                                     dtype_to_itemsize(v.dtype))>>]
  ELSE IF v.dtype \in {"float16", "float128", "complex64", "complex128",
                       "complex256"}
    THEN Fail("FIXME: copy_to of " \o v.dtype \o " not implemented")
  ELSE Fail("cannot copy format '" \o v.format \o " to a device (e.g. GPU)")

(***************************************************************************)
(* Identities assignment.  Both overloads of setidentities return nothing  *)
(* and act on their receiver: the result is the receiver after the call.   *)
(***************************************************************************)
\* variant: the identities are assigned before their length is checked
setidentities_given_assignfirst(v, identities) ==
  [err |-> IF identities.present /\ length(v) # Len(identities.ids)
             THEN "content and its identities must have the same length"
             ELSE "",
   view |-> [v EXCEPT !.identities = identities]]

\* setidentities(identities)
setidentities_given(v, identities) ==
  IF identities.present /\ length(v) # Len(identities.ids)
    THEN [err |-> "content and its identities must have the same length",
          view |-> v]
    ELSE [err |-> "", view |-> [v EXCEPT !.identities = identities]]

\* setidentities(): new identities 0 .. length() - 1
setidentities(v) == setidentities_given(v, NewIdentities(length(v)))

(***************************************************************************)
(* Segmented reduce and sort.  starts and parents are Index64 arrays read  *)
(* from their own offset; they are modelled as the sequences of their      *)
(* values.  The Reducer and the sorting kernels are outside this source    *)
(* tree and are modelled from their documented behaviour.                  *)
(***************************************************************************)
\* the little-endian two's complement bytes of an integer
EncodeInt(x, size) ==
  IF x >= 0 THEN NatToBytes(x, size)
  ELSE [k \in 1..size |-> 255 - NatToBytes(-x - 1, size)[k]]

\* the value of a float element that holds an integer
FloatToInt(bytes, dt) ==
  LET bits == BytesToBits(bytes)
      exp == BitsToInt(SubSeq(bits, 2, 1 + FloatEbits(dt)))
      e == exp - ((2 ^ (FloatEbits(dt) - 1)) - 1)
      frac == SubSeq(bits, 2 + FloatEbits(dt), 1 + FloatEbits(dt) + e)
      mag == BitsToInt(<<1>> \o frac)
  IN IF exp = 0 THEN 0 ELSE IF bits[1] = 1 THEN -mag ELSE mag

\* ((T*)fromptr)[at]: the value of element at of a buffer read as dtype
TypedRead(fromptr, at, dtype) ==
  LET size == dtype_to_itemsize(dtype)
      bytes == SubSeq(fromptr, at * size + 1, at * size + size)
  IN IF dtype = "boolean" THEN (IF bytes[1] # 0 THEN 1 ELSE 0)
     ELSE IF dtype \in {"float32", "float64"} THEN FloatToInt(bytes, dtype)
     ELSE DecodeInt(bytes, dtype)

\* the bytes of a value stored as dtype
TypedWrite(x, dtype) ==
  IF dtype = "boolean" THEN <<IF x # 0 THEN 1 ELSE 0>>
  ELSE IF dtype \in {"float32", "float64"}
    THEN EncodeFloat(x, 0, FloatEbits(dtype), FloatPbits(dtype))
  ELSE EncodeInt(x, dtype_to_itemsize(dtype))

RECURSIVE SumOver(_, _)
SumOver(f, S) ==
  IF S = {} THEN 0
  ELSE LET k == CHOOSE k \in S : TRUE IN f[k] + SumOver(f, S \ {k})

\* the sum reducer widens the integers and keeps the floating-point types
ReducerSum_return_dtype(dtype) ==
  IF dtype \in {"boolean", "int8", "int16", "int32", "int64"} THEN "int64"
  ELSE IF dtype \in {"uint8", "uint16", "uint32", "uint64"} THEN "uint64"
  ELSE dtype

\* Reducer::apply_<T> of the sum reducer: element g of the result is the sum
\* of data[offset + k] over the k with parents[k] = g
ReducerSum_apply(data, dtype, offset, starts, parents, outlength) ==
  LET value == [k \in 1..Len(parents) |->
                  TypedRead(data, offset + k - 1, dtype)] \o <<>>
  IN Flatten([g \in 1..outlength |->
                TypedWrite(SumOver(value, {k \in 1..Len(parents) :
                                             parents[k] = g - 1}),
                           ReducerSum_return_dtype(dtype))])

\* mask[g] is true iff no element has parent g
NumpyArray_reduce_mask_ByteMaskedArray_64(parents, outlength) ==
  [g \in 1..outlength |-> \A k \in 1..Len(parents) : parents[k] # g - 1]

SegmentedDtypes ==
  {"boolean", "int8", "int16", "int32", "int64", "uint8", "uint16",
   "uint32", "uint64", "float32", "float64"}

\* a result that is not a NumpyArray: the call is passed on to the
\* RegularArray made by toRegularArray
Delegated ==
  [err |-> "", kind |-> "RegularArray", view |-> <<>>, alloc |-> <<>>,
   mask |-> <<>>, regular |-> 0, on |-> <<>>]

Raised(msg) ==
  [err |-> msg, kind |-> "throw", view |-> <<>>, alloc |-> <<>>,
   mask |-> <<>>, regular |-> 0, on |-> <<>>]

\* variant: the flat NumpyArray over the receiver's own buffer, no
\* contiguous copy made
toRegularArray_asis(h, v) ==
  [content |-> NumpyArray(v.identities, v.parameters, v.ptr,
                          <<Product(v.shape)>>, <<v.itemsize>>, v.byteoffset,
                          v.itemsize, v.format, v.dtype, "cpu_kernels"),
   sizes |-> Tail(v.shape),
   alloc |-> <<>>]

\* NumpyArray::toRegularArray of a View of at least one dimension: content
\* is the flat 1-dimensional NumpyArray over the contiguous copy, sizes the
\* sizes of the RegularArrays around it, innermost last
toRegularArray(h, v) ==
  LET contiguous_self == contiguous(h, v)
  IN [content |-> NumpyArray(v.identities, v.parameters,
                             contiguous_self.view.ptr, <<Product(v.shape)>>,
                             <<v.itemsize>>, contiguous_self.view.byteoffset,
                             contiguous_self.view.itemsize,
                             contiguous_self.view.format,
                             contiguous_self.view.dtype, "cpu_kernels"),
      sizes |-> Tail(v.shape),
      alloc |-> contiguous_self.alloc]

\* the operation re-issued on toRegularArray(): on the flat NumpyArray when
\* the View has one dimension (r is then its result), and otherwise on a
\* RegularArray, which hands it on to its content
Reissued(reg, r) ==
  IF reg.sizes # <<>>
    THEN [Delegated EXCEPT !.alloc = reg.alloc, !.on = reg.content]
  ELSE IF r.err # "" THEN r
  ELSE [r EXCEPT !.alloc = reg.alloc \o @]

\* the result is out, inside a ByteMaskedArray when mask is not <<>> and
\* inside a RegularArray of the given size when regular is not 0
RECURSIVE reduce_next(_, _, _, _, _, _, _)
reduce_next(h, v, starts, parents, outlength, mask, keepdims) ==
  IF isscalar(v) THEN Raised("attempting to reduce a scalar")
  ELSE IF ndim(v) # 1 \/ ~iscontiguous(v) THEN
    LET reg == toRegularArray(h, v)
    IN Reissued(reg, IF reg.sizes # <<>> THEN Delegated
                     ELSE reduce_next(h \o reg.alloc, reg.content, starts,
                                      parents, outlength, mask, keepdims))
  ELSE IF v.dtype \in SegmentedDtypes THEN
    LET ptr == ReducerSum_apply(h[v.ptr], v.dtype,
                                CDiv(v.byteoffset, v.itemsize), starts,
                                parents, outlength)
        dtype == ReducerSum_return_dtype(v.dtype)
        itemsize == dtype_to_itemsize(dtype)
        out == NumpyArray(NoIdentities, NoParameters, Len(h) + 1,
                          <<outlength>>, <<itemsize>>, 0, itemsize,
                          dtype_to_format(dtype), dtype, "cpu_kernels")
    IN [err |-> "", kind |-> "NumpyArray", view |-> out, alloc |-> <<ptr>>,
        mask |-> IF mask
                   THEN NumpyArray_reduce_mask_ByteMaskedArray_64(parents,
                                                                  outlength)
                   ELSE <<>>,
        regular |-> IF keepdims THEN 1 ELSE 0, on |-> v]
  ELSE IF v.dtype \in {"float16", "float128", "complex64", "complex128",
                       "complex256"}
    THEN Raised("FIXME: reducers on " \o v.dtype)
  ELSE Raised("cannot apply reducers to NumpyArray with format \""
              \o v.format \o "\"")

\* the number of entries of the ranges: the group boundaries of parents and
\* both ends
sorting_ranges_length(parents) ==
  2 + Cardinality({i \in 1..(Len(parents) - 1) : parents[i] # parents[i + 1]})

RECURSIVE sorting_ranges_from(_, _)
sorting_ranges_from(parents, i) ==
  IF i >= Len(parents) THEN <<>>
  ELSE (IF parents[i] # parents[i + 1] THEN <<i>> ELSE <<>>)
       \o sorting_ranges_from(parents, i + 1)

\* 0, then every position where the parent changes, then the length
sorting_ranges(parents) ==
  <<0>> \o sorting_ranges_from(parents, 1) \o <<Len(parents)>>

\* the comparison of std::stable_sort: by value, elements that compare equal
\* keep their order (an unstable sort may order them either way; they hold
\* the same value)
SortsBefore(value, i, j, ascending) ==
  \/ IF ascending THEN value[i] < value[j] ELSE value[i] > value[j]
  \/ value[i] = value[j] /\ i < j

\* NumpyArray_sort<T>: the elements fromptr[0 .. parentslength - 1], each
\* range offsets[r] .. offsets[r + 1] - 1 sorted on its own
NumpyArray_sort(fromptr, dtype, offsets, parentslength, ascending, stable) ==
  LET size == dtype_to_itemsize(dtype)
      value == [k \in 1..parentslength |-> TypedRead(fromptr, k - 1, dtype)]
                 \o <<>>
      first(k) == CHOOSE r \in 1..(Len(offsets) - 1) :
                    offsets[r] < k /\ k <= offsets[r + 1]
      range(k) == (offsets[first(k)] + 1)..offsets[first(k) + 1]
      rank(k) == Cardinality({j \in range(k) :
                                SortsBefore(value, j, k, ascending)})
      result == [q \in 1..parentslength |->
                   CHOOSE k \in range(q) :
                     rank(k) = q - 1 - offsets[first(q)]]
  IN Flatten([q \in 1..parentslength |->
                SubSeq(fromptr, (result[q] - 1) * size + 1,
                       (result[q] - 1) * size + size)])

\* array_sort<T>(data, length, offset, ...): offset is not used
array_sort(data, dtype, len, offset, starts, parents, outlength, ascending, stable) ==
  IF len = 0 THEN <<>>
  ELSE NumpyArray_sort(data, dtype, sorting_ranges(parents), Len(parents),
                       ascending, stable)

RECURSIVE sort_next(_, _, _, _, _, _, _, _)
sort_next(h, v, starts, parents, outlength, ascending, stable, keepdims) ==
  IF isscalar(v) THEN Raised("attempting to sort a scalar")
  ELSE IF ndim(v) # 1 \/ ~iscontiguous(v) THEN
    LET reg == toRegularArray(h, v)
    IN Reissued(reg, IF reg.sizes # <<>> THEN Delegated
                     ELSE sort_next(h \o reg.alloc, reg.content, starts,
                                    parents, outlength, ascending, stable,
                                    keepdims))
  ELSE IF v.dtype \in SegmentedDtypes THEN
    LET offset == CDiv(v.byteoffset, v.itemsize)
        ptr == array_sort(h[v.ptr], v.dtype, length(v), offset, starts,
                          parents, outlength, ascending, stable)
        out == NumpyArray(NoIdentities, v.parameters, Len(h) + 1, v.shape,
                          v.strides, 0, v.itemsize, v.format, v.dtype,
                          "cpu_kernels")
    IN [err |-> "", kind |-> "NumpyArray", view |-> out, alloc |-> <<ptr>>,
        mask |-> <<>>,
        regular |-> IF keepdims THEN Len(parents) \div Len(starts) ELSE 0,
        on |-> v]
  ELSE IF v.dtype \in {"float16", "float128", "complex64", "complex128",
                       "complex256"}
    THEN Raised("FIXME: sort for " \o v.dtype \o " not implemented")
  ELSE Raised("cannot sort NumpyArray with format \"" \o v.format \o "\"")

\* NumpyArray_argsort<T>: for each range offsets[r] .. offsets[r + 1] - 1 the
\* positions of its elements within the range, in sorted order, as int64
NumpyArray_argsort(fromptr, dtype, len, offsets, ascending, stable) ==
  LET value == [k \in 1..len |-> TypedRead(fromptr, k - 1, dtype)] \o <<>>
      first(k) == CHOOSE r \in 1..(Len(offsets) - 1) :
                    offsets[r] < k /\ k <= offsets[r + 1]
      range(k) == (offsets[first(k)] + 1)..offsets[first(k) + 1]
      rank(k) == Cardinality({j \in range(k) :
                                SortsBefore(value, j, k, ascending)})
      result == [q \in 1..len |->
                   CHOOSE k \in range(q) :
                     rank(k) = q - 1 - offsets[first(q)]]
  IN Flatten([q \in 1..len |->
                EncodeInt(result[q] - 1 - offsets[first(q)], 8)])

\* index_sort<T>(data, length, offset, ...): offset is not used
index_sort(data, dtype, len, offset, starts, parents, outlength, ascending, stable) ==
  IF len = 0 THEN <<>>
  ELSE NumpyArray_argsort(data, dtype, len, sorting_ranges(parents),
                          ascending, stable)

RECURSIVE argsort_next(_, _, _, _, _, _, _, _)
argsort_next(h, v, starts, parents, outlength, ascending, stable, keepdims) ==
  IF isscalar(v) THEN Raised("attempting to argsort a scalar")
  ELSE IF ndim(v) # 1 \/ ~iscontiguous(v) THEN
    LET reg == toRegularArray(h, v)
    IN Reissued(reg, IF reg.sizes # <<>> THEN Delegated
                     ELSE argsort_next(h \o reg.alloc, reg.content, starts,
                                       parents, outlength, ascending, stable,
                                       keepdims))
  ELSE IF v.dtype \in SegmentedDtypes THEN
    LET offset == CDiv(v.byteoffset, v.itemsize)
        ptr == index_sort(h[v.ptr], v.dtype, length(v), offset, starts,
                          parents, outlength, ascending, stable)
        out == NumpyArray(NoIdentities, NoParameters, Len(h) + 1, v.shape,
                          <<8>>, 0, 8, dtype_to_format("int64"), "int64",
                          "cpu_kernels")
    IN [err |-> "", kind |-> "NumpyArray", view |-> out, alloc |-> <<ptr>>,
        mask |-> <<>>,
        regular |-> IF keepdims THEN Len(parents) \div Len(starts) ELSE 0,
        on |-> v]
  ELSE IF v.dtype \in {"float16", "float128", "complex64", "complex128",
                       "complex256"}
    THEN Raised("FIXME: argsort for " \o v.dtype \o " not implemented")
  ELSE Raised("cannot sort NumpyArray with format \"" \o v.format \o "\"")

(***************************************************************************)
(* The state machine.  heap: the buffers allocated so far; views: the      *)
(* Views created so far; log: one entry per call, in call order, naming    *)
(* the receiver (self) and argument (other) by their index in views, the   *)
(* message of the exception raised ("" for a normal return), the index of  *)
(* the View returned (0 when none) and any other returned value.           *)
(***************************************************************************)
Entry(op, self, other, arg, err, out, ret) ==
  [op |-> op, self |-> self, other |-> other, arg |-> arg, err |-> err,
   out |-> out, ret |-> ret]

\* a call that returns a new View, possibly over a newly allocated buffer
Returns(op, self, other, arg, r) ==
  /\ heap' = heap \o r.alloc
  /\ views' = Append(views, r.view)
  /\ log' = Append(log, Entry(op, self, other, arg, "", Len(views) + 1, ""))

\* a call that throws
Throws(op, self, other, arg, msg) ==
  /\ log' = Append(log, Entry(op, self, other, arg, msg, 0, ""))
  /\ UNCHANGED <<heap, views>>

\* a call that returns a value that is not a View
Answers(op, self, other, arg, ret) ==
  /\ log' = Append(log, Entry(op, self, other, arg, "", 0, ret))
  /\ UNCHANGED <<heap, views>>

\* the bytes of the initial buffers: all different, so that two elements
\* compare equal only when they are the same bytes
BufLen == 6 * MaxExtent

Buf0 == [k \in 1..BufLen |-> (k * 37 + 11) % 256]

(***************************************************************************)
(* Construction: SpecCtor.                                                 *)
(***************************************************************************)
CtorItemsizes == {1, 2}

CtorStrides == {2, 3}

CtorShapes == {<<>>, <<-1>>, <<MaxExtent>>, <<MaxExtent, MaxExtent>>,
               <<MaxExtent, -1>>}

CtorStrideSeqs == UNION {SeqsOfLen(CtorStrides, n) : n \in 0..2}

Construct(shape, strides, byteoffset, itemsize, dtype) ==
  /\ Len(log) < MaxCalls
  /\ LET arg == [shape |-> shape, strides |-> strides, itemsize |-> itemsize]
         msg == NumpyArray_ctor_error(shape, strides)
     IN IF msg # ""
          THEN Throws("NumpyArray", 0, 0, arg, msg)
          ELSE Returns("NumpyArray", 0, 0, arg,
                       [view |-> NumpyArray(NoIdentities, NoParameters, 1,
                                            shape, strides, byteoffset,
                                            itemsize, dtype_to_format(dtype),
                                            dtype, "cpu_kernels"),
                        alloc |-> <<>>])

CallValidityerror(i) ==
  /\ Len(log) < MaxCalls
  /\ Answers("validityerror", i, 0, <<>>, validityerror(views[i]))

InitCtor ==
  /\ heap = <<Buf0>>
  /\ views = <<>>
  /\ log = <<>>

NextCtor ==
  \/ \E shape \in CtorShapes, strides \in CtorStrideSeqs,
        itemsize \in CtorItemsizes, dtype \in {"int8", "int16"} :
       Construct(shape, strides, 0, itemsize, dtype)
  \/ \E i \in 1..Len(views) : CallValidityerror(i)

SpecCtor == InitCtor /\ [][NextCtor]_vars

(***************************************************************************)
(* Layout: SpecLayout (contiguous, shallow_copy, deep_copy).               *)
(***************************************************************************)
LayoutStrides == {-2, -1, 1, 2, 3, 4}

\* 2-dimensional inputs: packed, padded, transposed, reversed, overlapping
\* and misaligned strides
LayoutStrides2 == {<<2, 1>>, <<4, 2>>, <<1, 2>>, <<3, 1>>, <<-2, 1>>,
                   <<2, -1>>, <<4, 1>>, <<2, 2>>, <<1, 1>>, <<3, 2>>}

LayoutOffsets == {0, 3, 6}

LayoutExtents == 0..MaxExtent

\* 3-dimensional inputs: a few shapes with packed, padded, permuted and
\* reversed strides
LayoutShapes3 == {<<2, 2, 2>>, <<2, 1, 2>>, <<1, 2, 2>>, <<2, 0, 2>>}

LayoutStrides3 == {<<4, 2, 1>>, <<1, 2, 4>>, <<6, 2, 1>>, <<4, 3, 1>>,
                   <<2, 4, 1>>, <<-4, 2, 1>>, <<4, -2, -1>>, <<-2, 1, 0>>,
                   <<4, 2, 2>>, <<2, 2, 2>>}

LayoutShapeStrides ==
  UNION {SeqsOfLen(LayoutExtents, n) \X SeqsOfLen(LayoutStrides, n) :
           n \in 0..1}
  \cup (SeqsOfLen(LayoutExtents, 2) \X LayoutStrides2)
  \cup (LayoutShapes3 \X LayoutStrides3)

LayoutViews ==
  {v \in {NumpyArray(NoIdentities, NoParameters, 1, ss[1], ss[2], off, isz,
                     dtype_to_format(IF isz = 1 THEN "int8" ELSE "int16"),
                     IF isz = 1 THEN "int8" ELSE "int16", "cpu_kernels") :
            ss \in LayoutShapeStrides, off \in LayoutOffsets,
            isz \in {1, 2}} :
     InBounds(<<Buf0>>, v)}

CallContiguous(i) ==
  /\ Len(log) < MaxCalls
  /\ Returns("contiguous", i, 0, <<>>, contiguous(heap, views[i]))

CallShallowCopy(i) ==
  /\ Len(log) < MaxCalls
  /\ Returns("shallow_copy", i, 0, <<>>,
             [view |-> shallow_copy(views[i]), alloc |-> <<>>])

CallDeepCopy(i, copyarrays, copyindexes, copyidentities) ==
  /\ Len(log) < MaxCalls
  /\ Returns("deep_copy", i, 0,
             [copyarrays |-> copyarrays, copyidentities |-> copyidentities],
             deep_copy(heap, views[i], copyarrays, copyindexes,
                       copyidentities))

InitLayout ==
  /\ heap = <<Buf0>>
  /\ \E v \in LayoutViews : views = <<v>>
  /\ log = <<>>

NextLayout ==
  \/ \E i \in 1..Len(views) : CallContiguous(i)
  \/ \E i \in 1..Len(views) : CallShallowCopy(i)
  \/ \E i \in 1..Len(views), copyarrays \in BOOLEAN :
       CallDeepCopy(i, copyarrays, TRUE, TRUE)

SpecLayout == InitLayout /\ [][NextLayout]_vars

(***************************************************************************)
(* Merging: SpecMerge.  Two operand Views of every pair of dtypes, each    *)
(* over its own buffer of six elements of its dtype.                       *)
(***************************************************************************)
\* itemsize of an operand: sizeof its dtype (one byte for NOT_PRIMITIVE)
OperandItemsize(dt) ==
  IF dt = "NOT_PRIMITIVE" THEN 1 ELSE dtype_to_itemsize(dt)

SignedData == <<1, 2, 3, -1, -128, 127>>

UnsignedData == <<1, 2, 3, 255, 128, 0>>

BoolData == <<1, 0, 1, 1, 0, 1>>

\* 4.5, 5.5, 1.0, -2.0, 0.0, 3.0 as significand and binary exponent
FloatData == <<<<9, -1>>, <<11, -1>>, <<1, 0>>, <<-1, 1>>, <<0, 0>>, <<3, 0>>>>

\* bytes of the k-th element of an operand buffer of dtype dt
OperandElement(dt, k) ==
  IF is_signed(dt)
    THEN CastIntBytes(<<SignedData[k] % 256>>, "int8", dt)
  ELSE IF IsIntegerDtype(dt)
    THEN CastIntBytes(<<UnsignedData[k]>>, "uint8", dt)
  ELSE IF dt = "boolean" THEN <<BoolData[k]>>
  ELSE IF dt \in {"float32", "float64"}
    THEN EncodeFloat(FloatData[k][1], FloatData[k][2], FloatEbits(dt),
                     FloatPbits(dt))
  ELSE [b \in 1..OperandItemsize(dt) |-> (k * 37 + b * 11) % 256]

OperandBuffer(dt) ==
  LET isz == OperandItemsize(dt)
  IN [p \in 1..(6 * isz) |->
        OperandElement(dt, ((p - 1) \div isz) + 1)[((p - 1) % isz) + 1]]

\* layouts in elements: shape, strides, offset
Layout(shape, strides, offset) ==
  [shape |-> shape, strides |-> strides, offset |-> offset]

L0 == Layout(<<>>, <<>>, 0)
L3 == Layout(<<3>>, <<1>>, 0)
L2 == Layout(<<2>>, <<1>>, 0)
L2o == Layout(<<2>>, <<1>>, 1)
L2s == Layout(<<2>>, <<2>>, 0)
L2r == Layout(<<2>>, <<-1>>, 3)
L22 == Layout(<<2, 2>>, <<2, 1>>, 0)
L22t == Layout(<<2, 2>>, <<1, 2>>, 1)
L12 == Layout(<<1, 2>>, <<2, 1>>, 4)
L21 == Layout(<<2, 1>>, <<1, 1>>, 0)

\* the 1-dimensional packed case, taken with every pair of dtypes
PlainCase == <<L3, L2, "none", "none">>

\* operand layouts and "__array__" parameters taken with the dtypes of
\* MergeDtypes: strided and reversed 1-dimensional, scalars, 2-dimensional
\* with equal and different inner extents, different ndim, byte/char-tagged
MergeCases ==
  {<<L2s, L2r, "none", "none">>, <<L2o, L3, "none", "none">>,
   <<L0, L3, "none", "none">>, <<L0, L0, "none", "none">>,
   <<L22, L12, "none", "none">>, <<L22t, L22, "none", "none">>,
   <<L22, L21, "none", "none">>, <<L3, L22, "none", "none">>,
   <<L3, L2, "byte", "byte">>, <<L3, L2, "byte", "none">>,
   <<L0, L3, "byte", "none">>,
   <<L22, L12, "char", "char">>}

MergeDtypes == {"NOT_PRIMITIVE", "boolean", "int8", "uint8", "float32",
                "complex64"}

MergeInputs ==
  (Dtypes \X Dtypes \X {PlainCase})
  \cup (MergeDtypes \X MergeDtypes \X MergeCases)

Operand(dt, layout, parameters, ptr) ==
  NumpyArray(NoIdentities, parameters, ptr, layout.shape,
             [d \in 1..Len(layout.strides) |->
                layout.strides[d] * OperandItemsize(dt)],
             layout.offset * OperandItemsize(dt), OperandItemsize(dt),
             dtype_to_format(dt), dt, "cpu_kernels")

\* what an uninitialized struct Error and uninitialized bytes may hold
UninitChoices == [throws : BOOLEAN, byte : {0, 170}]

\* the choice matters only when an operand has no case in the fill switch
UninitFor(self, other) ==
  IF {self.dtype, other.dtype}
       \subseteq fill_cases(merge_dtype(self.dtype, other.dtype))
    THEN {[throws |-> FALSE, byte |-> 0]}
    ELSE UninitChoices

CallMerge(i, j, uninit) ==
  /\ Len(log) < MaxCalls
  /\ LET r == merge(heap, views[i], views[j], uninit)
         arg == [dtype |-> r.dtype, kind |-> r.kind]
     IN IF r.err # "" THEN Throws("merge", i, j, arg, r.err)
        ELSE IF r.kind = "NumpyArray" THEN Returns("merge", i, j, arg, r)
        ELSE Answers("merge", i, j, arg, "UnionArray")

CallMergeable(i, j, mergebool) ==
  /\ Len(log) < MaxCalls
  /\ Answers("mergeable", i, j, [mergebool |-> mergebool],
             IF mergeable(views[i], views[j], mergebool)
               THEN "true" ELSE "false")

InitMerge ==
  /\ \E in \in MergeInputs :
       LET a == in[1]
           b == in[2]
           c == in[3]
       IN /\ heap = <<OperandBuffer(a), OperandBuffer(b)>>
          /\ views = <<Operand(a, c[1], c[3], 1), Operand(b, c[2], c[4], 2)>>
  /\ log = <<>>

NextMerge ==
  \/ \E i \in 1..2, j \in 1..2 :
       /\ i # j
       /\ \E uninit \in UninitFor(views[i], views[j]) : CallMerge(i, j, uninit)
  \/ \E i \in 1..2, j \in 1..2, mergebool \in BOOLEAN :
       i # j /\ CallMergeable(i, j, mergebool)

SpecMerge == InitMerge /\ [][NextMerge]_vars

(***************************************************************************)
(* merge of integer Views holding the extreme values of their dtypes:      *)
(* SpecIntegers.                                                           *)
(***************************************************************************)
\* three elements of dtype dt at the ends of its range, as little-endian
\* bytes: for a signed dtype min, max, -1; for an unsigned dtype 0, max,
\* 2^(bits-1)
ExtremeElements(dt) ==
  LET n == dtype_to_itemsize(dt)
  IN IF is_signed(dt)
       THEN <<Zeros(n - 1) \o <<128>>,
              [k \in 1..(n - 1) |-> 255] \o <<127>>,
              [k \in 1..n |-> 255]>>
       ELSE <<Zeros(n),
              [k \in 1..n |-> 255],
              Zeros(n - 1) \o <<128>>>>

ExtremeBuffer(dt) == Flatten(ExtremeElements(dt))

\* the pairs of integer dtypes for which the promotion chain selects an
\* integer dtype: all but uint64 with a signed dtype
IntegerPairs ==
  {p \in {dt \in Dtypes : IsIntegerDtype(dt)} \X {dt \in Dtypes : IsIntegerDtype(dt)} :
     /\ ~(p[1] = "uint64" /\ is_signed(p[2]))
     /\ ~(p[2] = "uint64" /\ is_signed(p[1]))}

\* receiver and argument layouts: packed, offset, strided, reversed
IntegerLayouts == {<<L3, L2o>>, <<L2s, L3>>, <<Layout(<<3>>, <<-1>>, 2), L2>>}

InitIntegers ==
  /\ \E p \in IntegerPairs, c \in IntegerLayouts :
       /\ heap = <<ExtremeBuffer(p[1]), ExtremeBuffer(p[2])>>
       /\ views = <<Operand(p[1], c[1], "none", 1),
                    Operand(p[2], c[2], "none", 2)>>
  /\ log = <<>>

NextIntegers ==
  \E i \in 1..2, j \in 1..2 :
    /\ i # j
    /\ \E uninit \in UninitFor(views[i], views[j]) : CallMerge(i, j, uninit)

SpecIntegers == InitIntegers /\ [][NextIntegers]_vars

(***************************************************************************)
(* Slicing: SpecGetitem (getitem_at, getitem_range, getitem_field,         *)
(* getitem_fields and getitem with a Slice).                               *)
(***************************************************************************)
GetitemLen == MaxExtent + 1

\* the identities of a View of the given length
GetitemIdentities(withids, len) ==
  IF withids THEN NewIdentities(len) ELSE NoIdentities

\* 1-dimensional packed (with identities, and with identities one shorter
\* than the data, which the constructor accepts) and padded, 2-dimensional
\* packed and transposed (with and without identities) and zero-dimensional
\* receivers
GetitemViews ==
  {NumpyArray(NewIdentities(GetitemLen), NoParameters, 1, <<GetitemLen>>,
              <<1>>, 0, 1, dtype_to_format("int8"), "int8", "cpu_kernels"),
   NumpyArray(NewIdentities(GetitemLen - 1), NoParameters, 1,
              <<GetitemLen>>, <<1>>, 0, 1, dtype_to_format("int8"), "int8",
              "cpu_kernels"),
   NumpyArray(NoIdentities, NoParameters, 1, <<GetitemLen>>, <<4>>, 2, 2,
              dtype_to_format("int16"), "int16", "cpu_kernels"),
   NumpyArray(NoIdentities, NoParameters, 1, <<MaxExtent, GetitemLen>>,
              <<GetitemLen, 1>>, 1, 1, dtype_to_format("int8"), "int8",
              "cpu_kernels"),
   NumpyArray(NoIdentities, NoParameters, 1, <<>>, <<>>, 3, 1,
              dtype_to_format("int8"), "int8", "cpu_kernels")}
  \cup {NumpyArray(GetitemIdentities(withids, GetitemLen), NoParameters, 1,
                   <<GetitemLen, MaxExtent>>, <<1, GetitemLen>>, 0, 1,
                   dtype_to_format("int8"), "int8", "cpu_kernels") :
          withids \in BOOLEAN}

\* indices inside, at the edges of and outside an extent of GetitemLen
GetitemAts == {-(GetitemLen + 1), -GetitemLen, -1, 1, GetitemLen}

\* ranges of step 1: whole, clipped, negative bounds, no bounds
GetitemUnitRanges ==
  {SliceRange(0, GetitemLen, 1), SliceRange(1, GetitemLen + 2, 1),
   SliceRange(-2, -1, 1), SliceRangeNone(1)}

\* ranges of other steps
GetitemRanges ==
  GetitemUnitRanges
  \cup {SliceRange(0, GetitemLen, 2), SliceRangeNone(-1), SliceRangeNone(-2)}

\* the index array [0, 1, ..., n - 1]
Arange(n) == [k \in 1..n |-> k - 1]

GetitemArrays ==
  {SliceArray64(<<GetitemLen>>, Arange(GetitemLen)),
   SliceArray64(<<MaxExtent>>, Arange(MaxExtent)),
   SliceArray64(<<1>>, <<GetitemLen>>),
   SliceArray64(<<1, 2>>, <<1, 0>>)}

GetitemSlices ==
  {<<>>, <<SliceEllipsis>>, <<SliceNewAxis>>, <<SliceField>>,
   <<SliceFields>>}
  \cup {<<SliceAt(at)>> : at \in GetitemAts}
  \cup {<<item>> : item \in GetitemRanges \cup GetitemArrays}
  \cup {<<SliceAt(0), SliceAt(1)>>, <<SliceAt(-1), SliceAt(GetitemLen)>>,
        <<SliceAt(0), SliceAt(0), SliceAt(0)>>,
        <<SliceAt(GetitemLen), SliceAt(0)>>,
        <<SliceRangeNone(1), SliceAt(1)>>,
        <<SliceRange(0, GetitemLen, 2), SliceRangeNone(-1)>>,
        <<SliceEllipsis, SliceAt(0)>>, <<SliceNewAxis, SliceAt(0)>>,
        <<SliceAt(0), SliceField>>, <<SliceAt(GetitemLen), SliceField>>,
        <<SliceArray64(<<2>>, <<0, 1>>), SliceArray64(<<2>>, <<1, 0>>)>>,
        <<SliceArray64(<<2>>, <<0, 1>>), SliceRangeNone(1)>>,
        <<SliceRangeNone(1), SliceArray64(<<2>>, <<0, 1>>)>>,
        <<SliceArray64(<<2>>, <<0, 1>>), SliceField>>,
        <<SliceArray64(<<2>>, <<0, 1>>), SliceAt(0), SliceAt(0)>>}

\* a call that returns a View (with the buffers it allocated) or throws
Completes(op, self, arg, r) ==
  IF r.err # "" THEN Throws(op, self, 0, arg, r.err)
  ELSE Returns(op, self, 0, arg, r)

CallGetitemAt(i, at) ==
  /\ Len(log) < MaxCalls
  /\ ~isscalar(views[i])
  /\ Completes("getitem_at", i, at, getitem_at(views[i], at))

CallGetitemRange(i, range) ==
  /\ Len(log) < MaxCalls
  /\ ~isscalar(views[i])
  /\ Completes("getitem_range", i, range,
               getitem_range(views[i], range.start, range.stop,
                             range.hasstart, range.hasstop))

CallGetitemField(i) ==
  /\ Len(log) < MaxCalls
  /\ Completes("getitem_field", i, <<>>, getitem_field(views[i]))

CallGetitemFields(i) ==
  /\ Len(log) < MaxCalls
  /\ Completes("getitem_fields", i, <<>>, getitem_fields(views[i]))

CallGetitem(i, slice) ==
  /\ Len(log) < MaxCalls
  /\ IF getitem_branch(views[i], slice) \in {"Content", "RegularArray"}
       THEN Answers("getitem", i, 0, slice,
                    [kind |-> getitem_branch(views[i], slice)])
       ELSE Completes("getitem", i, slice, getitem(heap, views[i], slice))

InitGetitem ==
  /\ heap = <<Buf0>>
  /\ \E v \in GetitemViews : views = <<v>>
  /\ log = <<>>

\* every call is made on the View returned last (the initial View until a
\* call returns one)
NextGetitem ==
  \/ \E at \in GetitemAts : CallGetitemAt(Len(views), at)
  \/ \E range \in GetitemUnitRanges : CallGetitemRange(Len(views), range)
  \/ CallGetitemField(Len(views))
  \/ CallGetitemFields(Len(views))
  \/ \E slice \in GetitemSlices : CallGetitem(Len(views), slice)

SpecGetitem == InitGetitem /\ [][NextGetitem]_vars

(***************************************************************************)
(* Index arrays: SpecAsslice (asslice, contiguous).                        *)
(***************************************************************************)
AssliceDtypes ==
  {"boolean", "int8", "int16", "int32", "int64", "uint8", "uint16",
   "uint32", "uint64", "float32", "float64"}

\* element values: signed ones for the signed dtypes, values with the top
\* bit of 8 and 16 bits set for the unsigned ones, zero and non-zero bytes
\* for boolean
AssliceValues(dtype) ==
  IF dtype = "boolean" THEN <<1, 0, 2, 1, 0, 0>>
  ELSE IF is_signed(dtype) THEN <<5, -3, 0, 7, -1, 2>>
  ELSE IF dtype_to_itemsize(dtype) = 1 THEN <<5, 200, 0, 7, 255, 2>>
  ELSE <<5, 40000, 0, 7, 255, 2>>

\* a buffer of 2 * GetitemLen elements of the dtype (floating-point elements
\* are arbitrary bytes)
AssliceBuffer(dtype) ==
  Flatten([k \in 1..(2 * GetitemLen) |->
             IF dtype \in {"float32", "float64"}
               THEN [b \in 1..dtype_to_itemsize(dtype) |-> (k * 37 + b) % 256]
               ELSE EncodeInt(AssliceValues(dtype)[((k - 1) % 6) + 1],
                              dtype_to_itemsize(dtype))])

\* packed, packed at an offset, padded, reversed, packed at a byte offset of
\* 1, 2-dimensional and zero-dimensional layouts
AssliceLayouts(size) ==
  {[shape |-> <<GetitemLen>>, strides |-> <<size>>, byteoffset |-> 0],
   [shape |-> <<GetitemLen>>, strides |-> <<size>>, byteoffset |-> size],
   [shape |-> <<GetitemLen>>, strides |-> <<2 * size>>, byteoffset |-> 0],
   [shape |-> <<GetitemLen>>, strides |-> <<-size>>,
    byteoffset |-> (GetitemLen - 1) * size],
   [shape |-> <<GetitemLen>>, strides |-> <<size>>, byteoffset |-> 1],
   [shape |-> <<2, GetitemLen>>, strides |-> <<GetitemLen * size, size>>,
    byteoffset |-> 0],
   [shape |-> <<>>, strides |-> <<>>, byteoffset |-> 0]}

AssliceViews ==
  {NumpyArray(NoIdentities, NoParameters, 1, l.shape, l.strides,
              l.byteoffset, dtype_to_itemsize(dtype),
              dtype_to_format(dtype), dtype, "cpu_kernels") :
     <<dtype, l>> \in
       {dl \in AssliceDtypes
                 \X UNION {AssliceLayouts(size) : size \in {1, 2, 4, 8}} :
          /\ dl[2] \in AssliceLayouts(dtype_to_itemsize(dl[1]))
          /\ dl[2].byteoffset % dtype_to_itemsize(dl[1]) # 0
               => dl[1] = "int16"}}

CallAsslice(i) ==
  /\ Len(log) < MaxCalls
  /\ LET r == asslice(heap, views[i])
     IN IF r.err # "" THEN Throws("asslice", i, 0, <<>>, r.err)
        ELSE Answers("asslice", i, 0, <<>>,
                     [index |-> r.index, frombool |-> r.frombool])

\* contiguous, on Views of at least one dimension
CallContiguousView(i) ==
  /\ ~isscalar(views[i])
  /\ CallContiguous(i)

InitAsslice ==
  \E v \in AssliceViews :
    /\ heap = <<AssliceBuffer(v.dtype)>>
    /\ views = <<v>>
    /\ log = <<>>

NextAsslice ==
  \/ \E i \in 1..Len(views) : CallAsslice(i)
  \/ \E i \in 1..Len(views) : CallContiguousView(i)

SpecAsslice == InitAsslice /\ [][NextAsslice]_vars

(***************************************************************************)
(* Segmented reduce and sort: SpecSegmented.                               *)
(***************************************************************************)
SegmentedLen == 3 * MaxExtent

\* thirteen element values: six in two unsorted runs of three, five for one
\* run of two and one of three, and two that are negative (signed and
\* floating-point types) or have the top bit set (unsigned types)
SegmentedValues(dtype) ==
  IF dtype = "boolean" THEN <<1, 0, 1, 1, 0, 0, 1, 0, 0, 1, 1, 0, 1>>
  ELSE <<3, 1, 2, 9, 7, 8, 10, 20, 30, 40, 50>>
       \o (IF is_signed(dtype) \/ dtype \in {"float32", "float64"}
             THEN <<-4, -6>>
           ELSE IF dtype_to_itemsize(dtype) = 1 THEN <<250, 200>>
           ELSE <<40000, 250>>)

SegmentedBufLen == Len(SegmentedValues("int8"))

SegmentedItemsize(dtype) ==
  IF dtype = "NOT_PRIMITIVE" THEN 1 ELSE dtype_to_itemsize(dtype)

SegmentedBuffer(dtype) ==
  IF dtype \in SegmentedDtypes
    THEN Flatten([k \in 1..SegmentedBufLen |->
                    TypedWrite(SegmentedValues(dtype)[k], dtype)])
    ELSE [k \in 1..(SegmentedBufLen * SegmentedItemsize(dtype)) |->
            (k * 37 + 11) % 256]

\* packed at the start, packed at element 6, packed at the end, packed at a
\* byte offset of 1, empty, padded, 2-dimensional and zero-dimensional
\* layouts
SegmentedLayouts(size) ==
  {[shape |-> <<6>>, strides |-> <<size>>, byteoffset |-> 0],
   [shape |-> <<5>>, strides |-> <<size>>, byteoffset |-> 6 * size],
   [shape |-> <<SegmentedLen>>, strides |-> <<size>>,
    byteoffset |-> (SegmentedBufLen - SegmentedLen) * size],
   [shape |-> <<5>>, strides |-> <<size>>, byteoffset |-> 1],
   [shape |-> <<0>>, strides |-> <<size>>, byteoffset |-> 0],
   [shape |-> <<6>>, strides |-> <<2 * size>>, byteoffset |-> 0],
   [shape |-> <<2, 3>>, strides |-> <<3 * size, size>>, byteoffset |-> 0],
   [shape |-> <<>>, strides |-> <<>>, byteoffset |-> 0]}

\* every layout for the types with a reducer and a sort (the byte offset of
\* 1 for int8 and int16 only), the first for the others
SegmentedViews ==
  {NumpyArray(NoIdentities, NoParameters, 1, l.shape, l.strides,
              l.byteoffset, SegmentedItemsize(dtype),
              IF dtype = "NOT_PRIMITIVE" THEN "O" ELSE dtype_to_format(dtype),
              dtype, "cpu_kernels") :
     <<dtype, l>> \in
       {dl \in (SegmentedDtypes \cup {"float16", "complex128",
                                      "NOT_PRIMITIVE"})
                 \X UNION {SegmentedLayouts(size) : size \in {1, 2, 4, 8, 16}} :
          /\ dl[2] \in SegmentedLayouts(SegmentedItemsize(dl[1]))
          /\ dl[2].byteoffset = 1 => dl[1] \in {"int8", "int16"}
          /\ dl[1] \notin SegmentedDtypes
               => dl[2].shape = <<6>> /\ dl[2].byteoffset = 0
                  /\ dl[2].strides = <<SegmentedItemsize(dl[1])>>}}

\* the segmentations of n elements a caller passes: one run; a run of
\* n \div 2 and a run of the rest; the same two runs as groups 0 and 2 of
\* three, group 1 being empty
Segmentations(n) ==
  IF n <= 0 THEN {[starts |-> <<0>>, parents |-> <<>>, outlength |-> 1]}
  ELSE
    {[starts |-> <<0>>, parents |-> [k \in 1..n |-> 0], outlength |-> 1],
     [starts |-> <<0, n \div 2>>,
      parents |-> [k \in 1..n |-> IF k <= n \div 2 THEN 0 ELSE 1],
      outlength |-> 2],
     [starts |-> <<0, n \div 2, n \div 2>>,
      parents |-> [k \in 1..n |-> IF k <= n \div 2 THEN 0 ELSE 2],
      outlength |-> 3]}

\* a call that returns a NumpyArray (possibly inside a ByteMaskedArray or a
\* RegularArray), returns what a RegularArray returns, or throws
Concludes(op, self, arg, r) ==
  IF r.err # "" THEN Throws(op, self, 0, arg, r.err)
  ELSE IF r.kind # "NumpyArray"
    THEN /\ heap' = heap \o r.alloc
         /\ views' = views
         /\ log' = Append(log, Entry(op, self, 0, arg, "", 0,
                                     [kind |-> r.kind, on |-> r.on]))
  ELSE /\ heap' = heap \o r.alloc
       /\ views' = Append(views, r.view)
       /\ log' = Append(log, Entry(op, self, 0, arg, "", Len(views) + 1,
                                   [mask |-> r.mask, regular |-> r.regular,
                                    on |-> r.on]))

CallReduceNext(i, seg, mask, keepdims) ==
  /\ Len(log) < MaxCalls
  /\ Concludes("reduce_next", i,
               [seg |-> seg, mask |-> mask, keepdims |-> keepdims],
               reduce_next(heap, views[i], seg.starts, seg.parents,
                           seg.outlength, mask, keepdims))

CallSortNext(i, seg, ascending, stable, keepdims) ==
  /\ Len(log) < MaxCalls
  /\ Concludes("sort_next", i,
               [seg |-> seg, ascending |-> ascending, stable |-> stable,
                keepdims |-> keepdims],
               sort_next(heap, views[i], seg.starts, seg.parents,
                         seg.outlength, ascending, stable, keepdims))

CallArgsortNext(i, seg, ascending, stable, keepdims) ==
  /\ Len(log) < MaxCalls
  /\ Concludes("argsort_next", i,
               [seg |-> seg, ascending |-> ascending, stable |-> stable,
                keepdims |-> keepdims],
               argsort_next(heap, views[i], seg.starts, seg.parents,
                            seg.outlength, ascending, stable, keepdims))

InitSegmented ==
  \E v \in SegmentedViews :
    /\ heap = <<SegmentedBuffer(v.dtype)>>
    /\ views = <<v>>
    /\ log = <<>>

\* the arguments of the calls made on a View of n elements
ReduceArguments(n) ==
  LET seg == Segmentations(n)
  IN {c \in seg \X {<<FALSE, FALSE>>, <<TRUE, FALSE>>, <<FALSE, TRUE>>} :
        \/ c[2] = <<FALSE, FALSE>>
        \/ c[2] = <<TRUE, FALSE>> /\ c[1].outlength # 2
        \/ c[2] = <<FALSE, TRUE>> /\ c[1].outlength = 2}

SortArguments(n) ==
  LET seg == Segmentations(n)
  IN {c \in seg \X {<<TRUE, TRUE, FALSE>>, <<FALSE, TRUE, FALSE>>,
                    <<TRUE, FALSE, FALSE>>, <<TRUE, TRUE, TRUE>>} :
        \/ c[2] = <<TRUE, TRUE, FALSE>>
        \/ c[2] = <<FALSE, TRUE, FALSE>> /\ c[1].outlength # 1
        \/ c[2] = <<TRUE, FALSE, FALSE>> /\ c[1].outlength = 1
        \/ c[2] = <<TRUE, TRUE, TRUE>> /\ c[1].outlength = 2}

\* every call is made on the View returned last (the initial View until a
\* call returns one)
NextSegmented ==
  \/ \E c \in ReduceArguments(length(views[Len(views)])) :
       CallReduceNext(Len(views), c[1], c[2][1], c[2][2])
  \/ \E c \in SortArguments(length(views[Len(views)])) :
       CallSortNext(Len(views), c[1], c[2][1], c[2][2], c[2][3])
  \/ \E c \in SortArguments(length(views[Len(views)])) :
       CallArgsortNext(Len(views), c[1], c[2][1], c[2][2], c[2][3])

SpecSegmented == InitSegmented /\ [][NextSegmented]_vars

(***************************************************************************)
(* Operations on the Views made so far: SpecFrame.                         *)
(***************************************************************************)
\* a call of setidentities: the receiver is changed where it stands
Assigns(i, arg, r) ==
  /\ views' = [views EXCEPT ![i] = r.view]
  /\ log' = Append(log, Entry("setidentities", i, 0, arg, r.err, 0, ""))
  /\ UNCHANGED heap

\* setidentities(), on Views of at least one dimension
CallSetidentities(i) ==
  /\ Len(log) < MaxCalls
  /\ ~isscalar(views[i])
  /\ Assigns(i, "new", setidentities(views[i]))

CallSetidentitiesGiven(i, identities) ==
  /\ Len(log) < MaxCalls
  /\ Assigns(i, identities, setidentities_given(views[i], identities))

FrameIdentities ==
  {NoIdentities, NewIdentities(GetitemLen), NewIdentities(MaxExtent)}

InitFrame ==
  /\ heap = <<Buf0>>
  /\ \E v \in GetitemViews : views = <<v>>
  /\ log = <<>>

NextFrame ==
  \/ \E i \in 1..Len(views) : CallSetidentities(i)
  \/ \E i \in 1..Len(views), identities \in FrameIdentities :
       CallSetidentitiesGiven(i, identities)
  \/ \E i \in 1..Len(views) : CallShallowCopy(i)
  \/ \E i \in 1..Len(views) : CallDeepCopy(i, TRUE, TRUE, TRUE)
  \/ \E i \in 1..Len(views) : CallContiguousView(i)
  \/ \E i \in 1..Len(views), at \in {0, GetitemLen} : CallGetitemAt(i, at)
  \/ \E i \in 1..Len(views) :
       CallGetitem(i, <<SliceArray64(<<2>>, <<1, 0>>), SliceAt(0)>>)
  \/ \E i \in 1..Len(views), j \in 1..Len(views) :
       \E uninit \in UninitFor(views[i], views[j]) : CallMerge(i, j, uninit)
  \/ \E i \in 1..Len(views) :
       \E seg \in Segmentations(length(views[i])) :
         seg.outlength = 2 /\ CallReduceNext(i, seg, FALSE, FALSE)
  \/ \E i \in 1..Len(views) :
       \E seg \in Segmentations(length(views[i])) :
         seg.outlength = 2 /\ CallSortNext(i, seg, TRUE, TRUE, FALSE)

SpecFrame == InitFrame /\ [][NextFrame]_vars

(***************************************************************************)
(* Selections from Views with identities: SpecIdentities.                  *)
(***************************************************************************)
\* 1-dimensional and 2-dimensional (packed and transposed) receivers whose
\* identities have the length of the View
IdentitiesViews ==
  {NumpyArray(NewIdentities(GetitemLen), NoParameters, 1, <<GetitemLen>>,
              <<1>>, 0, 1, dtype_to_format("int8"), "int8", "cpu_kernels"),
   NumpyArray(NewIdentities(GetitemLen), NoParameters, 1,
              <<GetitemLen, MaxExtent>>, <<MaxExtent, 1>>, 1, 1,
              dtype_to_format("int8"), "int8", "cpu_kernels"),
   NumpyArray(NewIdentities(GetitemLen), NoParameters, 1,
              <<GetitemLen, MaxExtent>>, <<1, GetitemLen>>, 0, 1,
              dtype_to_format("int8"), "int8", "cpu_kernels")}

\* index arrays within a length of n: one row, the first two swapped, the
\* last row twice
CarryIndexes(n) ==
  IF n < 2 THEN {<<0>>} ELSE {<<0>>, <<1, 0>>, <<n - 1, n - 1>>}

\* carry, with positions inside a contiguous receiver of at least one
\* dimension
CallCarry(i, index) ==
  /\ Len(log) < MaxCalls
  /\ ~isscalar(views[i])
  /\ iscontiguous(views[i])
  /\ Completes("carry", i, index, carry(heap, views[i], index))

IdentitiesSlices ==
  {<<>>, <<SliceAt(1)>>, <<SliceRange(1, GetitemLen, 1)>>,
   <<SliceRangeNone(-1)>>, <<SliceArray64(<<2>>, <<1, 0>>)>>,
   <<SliceRangeNone(1), SliceAt(0)>>, <<SliceEllipsis, SliceAt(0)>>,
   <<SliceNewAxis>>}

InitIdentities ==
  /\ heap = <<Buf0>>
  /\ \E v \in IdentitiesViews : views = <<v>>
  /\ log = <<>>

\* every call is made on the View returned last (the initial View until a
\* call returns one)
NextIdentities ==
  \/ \E at \in {1, -1, GetitemLen} : CallGetitemAt(Len(views), at)
  \/ \E range \in GetitemUnitRanges : CallGetitemRange(Len(views), range)
  \/ \E slice \in IdentitiesSlices : CallGetitem(Len(views), slice)
  \/ \E index \in CarryIndexes(length(views[Len(views)])) :
       CallCarry(Len(views), index)

SpecIdentities == InitIdentities /\ [][NextIdentities]_vars

(***************************************************************************)
(* Copies between kernel libraries: SpecCopyTo.                            *)
(***************************************************************************)
Libs == {"cpu_kernels", "cuda_kernels"}

CopyToItemsize(dtype) ==
  IF dtype = "NOT_PRIMITIVE" THEN 1 ELSE dtype_to_itemsize(dtype)

\* a buffer of 2 * GetitemLen elements
CopyToBuffer(dtype) ==
  [k \in 1..(2 * GetitemLen * CopyToItemsize(dtype)) |-> (k * 37 + 11) % 256]

\* packed, packed at an offset, padded, empty, 2-dimensional and
\* zero-dimensional layouts
CopyToLayouts(size) ==
  {[shape |-> <<GetitemLen>>, strides |-> <<size>>, byteoffset |-> 0],
   [shape |-> <<GetitemLen>>, strides |-> <<size>>, byteoffset |-> size],
   [shape |-> <<GetitemLen>>, strides |-> <<2 * size>>, byteoffset |-> 0],
   [shape |-> <<0>>, strides |-> <<size>>, byteoffset |-> 0],
   [shape |-> <<2, GetitemLen>>, strides |-> <<GetitemLen * size, size>>,
    byteoffset |-> 0],
   [shape |-> <<GetitemLen, 2>>, strides |-> <<size, GetitemLen * size>>,
    byteoffset |-> 0],
   [shape |-> <<>>, strides |-> <<>>, byteoffset |-> 0]}

CopyToViews ==
  {NumpyArray(NoIdentities, NoParameters, 1, l.shape, l.strides,
              l.byteoffset, CopyToItemsize(dtype),
              IF dtype = "NOT_PRIMITIVE" THEN "O" ELSE dtype_to_format(dtype),
              dtype, lib) :
     <<dtype, l, lib>> \in
       {dl \in Dtypes
                 \X (UNION {CopyToLayouts(size) : size \in {1, 2, 4, 8, 16, 32}})
                 \X Libs :
          dl[2] \in CopyToLayouts(CopyToItemsize(dl[1]))}}

CallCopyTo(i, ptr_lib) ==
  /\ Len(log) < MaxCalls
  /\ Completes("copy_to", i, ptr_lib, copy_to(heap, views[i], ptr_lib))

InitCopyTo ==
  \E v \in CopyToViews :
    /\ heap = <<CopyToBuffer(v.dtype)>>
    /\ views = <<v>>
    /\ log = <<>>

NextCopyTo == \E i \in 1..Len(views), ptr_lib \in Libs : CallCopyTo(i, ptr_lib)

SpecCopyTo == InitCopyTo /\ [][NextCopyTo]_vars

(***************************************************************************)
(* The two ways getitem resolves a slice: SpecPaths.                       *)
(***************************************************************************)
\* 1-, 2- and 3-dimensional receivers, packed, padded, transposed and
\* reversed, each with and without identities, and a zero-dimensional one
PathViews ==
  {NumpyArray(GetitemIdentities(withids, l.shape[1]), NoParameters, 1,
              l.shape, l.strides, l.byteoffset, 1, dtype_to_format("int8"),
              "int8", "cpu_kernels") :
     <<withids, l>> \in
       BOOLEAN
       \X {[shape |-> <<GetitemLen>>, strides |-> <<2>>, byteoffset |-> 1],
           [shape |-> <<0>>, strides |-> <<1>>, byteoffset |-> 0],
           [shape |-> <<MaxExtent, GetitemLen>>,
            strides |-> <<GetitemLen, 1>>, byteoffset |-> 1],
           [shape |-> <<GetitemLen, MaxExtent>>,
            strides |-> <<1, GetitemLen>>, byteoffset |-> 0],
           [shape |-> <<2, MaxExtent, 2>>,
            strides |-> <<2 * MaxExtent, -2, 1>>,
            byteoffset |-> 2 * (MaxExtent - 1)]}}
  \cup {NumpyArray(NoIdentities, NoParameters, 1, <<>>, <<>>, 3, 1,
                   dtype_to_format("int8"), "int8", "cpu_kernels")}

\* slices of At, Range, Ellipsis and NewAxis items
BasicSlices ==
  {<<>>, <<SliceEllipsis>>, <<SliceNewAxis>>,
   <<SliceAt(1)>>, <<SliceAt(-1)>>, <<SliceAt(-3)>>, <<SliceAt(2)>>,
   <<SliceRangeNone(1)>>, <<SliceRange(1, GetitemLen + 2, 1)>>,
   <<SliceRange(-2, -1, 1)>>, <<SliceRange(0, GetitemLen, 2)>>,
   <<SliceRangeNone(-1)>>, <<SliceRange(-1, 0, -2)>>,
   <<SliceAt(0), SliceAt(1)>>, <<SliceAt(1), SliceAt(2)>>,
   <<SliceAt(0), SliceAt(0), SliceAt(1)>>,
   <<SliceAt(0), SliceAt(0), SliceAt(0), SliceAt(0)>>,
   <<SliceRangeNone(1), SliceAt(1)>>, <<SliceAt(1), SliceRangeNone(-1)>>,
   <<SliceRange(0, GetitemLen, 2), SliceRangeNone(-1)>>,
   <<SliceRangeNone(-1), SliceRange(1, 2, 1), SliceAt(0)>>,
   <<SliceEllipsis, SliceAt(0)>>, <<SliceEllipsis, SliceAt(2)>>,
   <<SliceEllipsis, SliceRangeNone(-1)>>,
   <<SliceAt(1), SliceEllipsis>>, <<SliceAt(1), SliceEllipsis, SliceAt(0)>>,
   <<SliceEllipsis, SliceAt(0), SliceAt(1)>>,
   <<SliceEllipsis, SliceAt(0), SliceAt(0), SliceAt(0)>>,
   <<SliceEllipsis, SliceAt(0), SliceAt(0), SliceAt(0), SliceAt(0)>>,
   <<SliceEllipsis, SliceNewAxis, SliceAt(0)>>,
   <<SliceNewAxis, SliceAt(0)>>, <<SliceAt(0), SliceNewAxis>>,
   <<SliceRangeNone(1), SliceNewAxis, SliceAt(1)>>,
   <<SliceNewAxis, SliceEllipsis, SliceAt(1)>>}

\* slices with an Array, Missing or Jagged item
OtherSlices ==
  {<<SliceArray64(<<2>>, <<1, 0>>)>>,
   <<SliceAt(0), SliceArray64(<<2>>, <<1, 0>>)>>,
   <<SliceMissing64>>, <<SliceAt(0), SliceJagged64>>,
   <<SliceRangeNone(1), SliceMissing64>>}

InitPaths ==
  /\ heap = <<Buf0>>
  /\ \E v \in PathViews : views = <<v>>
  /\ log = <<>>

\* every call is made on the View returned last (the initial View until a
\* call returns one)
NextPaths ==
  \E slice \in BasicSlices \cup OtherSlices : CallGetitem(Len(views), slice)

SpecPaths == InitPaths /\ [][NextPaths]_vars

(***************************************************************************)
(* Array indices: SpecAdvanced.                                            *)
(***************************************************************************)
\* index arrays of flat length GetitemLen (one with negative entries), a
\* 2-dimensional one, one of its flat length, and one with an entry outside
\* every extent
AdvancedA == SliceArray64(<<GetitemLen>>, [j \in 1..GetitemLen |-> j % 2])

AdvancedB == SliceArray64(<<GetitemLen>>, [j \in 1..GetitemLen |-> (j \div 2) % 2])

AdvancedC == SliceArray64(<<GetitemLen>>, [j \in 1..GetitemLen |-> -(j % 3)])

AdvancedSquare == SliceArray64(<<2, 2>>, <<0, 1, 1, 0>>)

AdvancedFlat == SliceArray64(<<4>>, <<1, 0, 0, 1>>)

AdvancedOutside == SliceArray64(<<GetitemLen>>, [j \in 1..GetitemLen |-> IF j = 2 THEN 2 * GetitemLen ELSE 0])

\* slices with one Array item, with several of the same flat length, with
\* Range and At items before, between and after them
AdvancedSlices ==
  {<<AdvancedA>>, <<AdvancedC>>, <<AdvancedSquare>>,
   <<AdvancedA, AdvancedB>>, <<AdvancedB, AdvancedC>>,
   <<AdvancedSquare, AdvancedFlat>>,
   <<AdvancedA, SliceRangeNone(-1)>>, <<SliceRange(0, GetitemLen, 2), AdvancedB>>,
   <<AdvancedA, SliceRangeNone(-1), AdvancedB>>,
   <<SliceRangeNone(-1), AdvancedA, AdvancedB>>,
   <<AdvancedA, AdvancedB, SliceRange(1, 2, 1)>>,
   <<AdvancedA, AdvancedB, AdvancedC>>,
   <<AdvancedA, SliceAt(1)>>, <<SliceAt(-1), AdvancedA, AdvancedB>>,
   <<AdvancedA, SliceAt(1), AdvancedB>>,
   <<AdvancedOutside>>, <<AdvancedA, AdvancedOutside>>,
   <<SliceRangeNone(-1)>>}

InitAdvanced ==
  /\ heap = <<Buf0>>
  /\ \E v \in PathViews : views = <<v>>
  /\ log = <<>>

\* every call is made on the View returned last (the initial View until a
\* call returns one)
NextAdvanced == \E slice \in AdvancedSlices : CallGetitem(Len(views), slice)

SpecAdvanced == InitAdvanced /\ [][NextAdvanced]_vars

(***************************************************************************)
(* Operations that hand buffers to kernels: SpecDispatch.                  *)
(***************************************************************************)
\* int8 receivers over Buf0: 1-dimensional packed at a byte offset and
\* padded, 2-dimensional packed and transposed, 3-dimensional with a
\* negative stride, one with identities, and a zero-dimensional one
DispatchViews ==
  {NumpyArray(GetitemIdentities(l.withids, l.shape[1]), NoParameters, 1,
              l.shape, l.strides, l.byteoffset, 1, dtype_to_format("int8"),
              "int8", "cpu_kernels") :
     l \in {[shape |-> <<GetitemLen>>, strides |-> <<1>>, byteoffset |-> 1,
             withids |-> FALSE],
            [shape |-> <<GetitemLen>>, strides |-> <<2>>, byteoffset |-> 1,
             withids |-> FALSE],
            [shape |-> <<GetitemLen>>, strides |-> <<-1>>,
             byteoffset |-> GetitemLen, withids |-> TRUE],
            [shape |-> <<MaxExtent, GetitemLen>>,
             strides |-> <<GetitemLen, 1>>, byteoffset |-> 0,
             withids |-> FALSE],
            [shape |-> <<GetitemLen, MaxExtent>>,
             strides |-> <<1, GetitemLen>>, byteoffset |-> 0,
             withids |-> TRUE],
            [shape |-> <<2, MaxExtent, 2>>,
             strides |-> <<2 * MaxExtent, -2, 1>>,
             byteoffset |-> 2 * (MaxExtent - 1), withids |-> FALSE]}}
  \cup {NumpyArray(NoIdentities, NoParameters, 1, <<>>, <<>>, 3, 1,
                   dtype_to_format("int8"), "int8", "cpu_kernels")}

\* one run, and two runs, of the elements of a View
DispatchSegmentations(v) ==
  IF isscalar(v) THEN Segmentations(0)
  ELSE {seg \in Segmentations(Product(v.shape)) : seg.outlength <= 2}

InitDispatch ==
  /\ heap = <<Buf0>>
  /\ \E v \in DispatchViews : views = <<v>>
  /\ log = <<>>

NextDispatch ==
  \/ \E seg \in DispatchSegmentations(views[Len(views)]) :
       CallReduceNext(Len(views), seg, FALSE, FALSE)
  \/ \E seg \in DispatchSegmentations(views[Len(views)]) :
       CallSortNext(Len(views), seg, TRUE, TRUE, FALSE)
  \/ \E seg \in DispatchSegmentations(views[Len(views)]) :
       CallArgsortNext(Len(views), seg, FALSE, TRUE, FALSE)
  \/ \E i \in 1..Len(views), j \in 1..Len(views) :
       \E uninit \in UninitFor(views[i], views[j]) : CallMerge(i, j, uninit)
  \/ \E slice \in {<<SliceRangeNone(-1)>>, <<AdvancedA>>} :
       CallGetitem(Len(views), slice)

SpecDispatch == InitDispatch /\ [][NextDispatch]_vars

(***************************************************************************)
(* The error taxonomy, by message.                                         *)
(***************************************************************************)
ShapeErrors == {"len(shape) must be equal to len(strides)",
                "cannot merge Numpy scalars",
                "cannot merge arrays with different shapes",
                "cannot get-item on a scalar",
                "too many dimensions in slice"}

TypeErrors ==
  {"cannot merge Numpy format",
   "cannot slice NumpyArray by field name",
   "cannot slice NumpyArray by field names",
   "cannot slice NumpyArray by a field name because it has no fields",
   "cannot slice NumpyArray by field names because it has no fields",
   "unrecognized slice item type for NumpyArray::getitem_bystrides",
   "slice items can have all fixed-size dimensions (to follow NumPy's slice rules) or they can have all var-sized dimensions (for jagged indexing), but not both in the same slice item",
   "only arrays of integers or booleans may be used as a slice"}

IndexErrors == {"index out of range"}

NotImplementedErrors ==
  {"FIXME: merge to float16 not implemented",
   "FIXME: merge to float128 not implemented",
   "FIXME: merge to complex64 not implemented",
   "FIXME: merge to complex128 not implemented",
   "FIXME: merge to complex256 not implemented",
   "FIXME: merge from float16 not implemented",
   "FIXME: copy_to of float16 not implemented",
   "FIXME: copy_to of float128 not implemented",
   "FIXME: copy_to of complex64 not implemented",
   "FIXME: copy_to of complex128 not implemented",
   "FIXME: copy_to of complex256 not implemented"}

(***************************************************************************)
(* Properties of construction and layout.                                  *)
(***************************************************************************)
Calls(op) == {k \in 1..Len(log) : log[k].op = op}

\* each stride is itemsize times the product of the strictly-inner extents
Packed(v) ==
  \A d \in 1..Len(v.shape) :
    v.strides[d] = v.itemsize * Product(SubSeq(v.shape, d + 1, Len(v.shape)))

\* the same element bytes at every multi-index
SameElements(h, a, b) ==
  /\ a.shape = b.shape
  /\ \A ix \in Indices(a.shape) : ReadBytes(h, a, ix) = ReadBytes(h, b, ix)

Misaligned(strides, itemsize) ==
  \E i \in 1..Len(strides) : strides[i] % itemsize # 0

\* C7 as stated: construction raises ShapeError when the lengths of shape and
\* strides differ or a stride is not a multiple of itemsize, so every
\* constructed View has equal lengths and aligned strides.
C7_CtorRejectsMisaligned ==
  \A k \in Calls("NumpyArray") :
    LET a == log[k].arg
    IN /\ (Len(a.shape) # Len(a.strides) \/ Misaligned(a.strides, a.itemsize))
            => log[k].err \in ShapeErrors
       /\ log[k].out # 0 =>
            /\ Len(views[log[k].out].shape) = Len(views[log[k].out].strides)
            /\ ~Misaligned(views[log[k].out].strides,
                           views[log[k].out].itemsize)

\* C7 (amended): construction raises ShapeError exactly when the lengths of
\* shape and strides differ, so every constructed View has
\* len(shape) = len(strides); a stride that is not a multiple of itemsize
\* does not make construction fail, it is reported by validityerror.
C7_CtorChecksLengths ==
  /\ \A k \in Calls("NumpyArray") :
       LET a == log[k].arg
       IN /\ (Len(a.shape) # Len(a.strides)) <=> (log[k].err \in ShapeErrors)
          /\ (Len(a.shape) = Len(a.strides)) <=> (log[k].out # 0)
          /\ log[k].out # 0 =>
               /\ views[log[k].out].shape = a.shape
               /\ views[log[k].out].strides = a.strides
  /\ \A i \in 1..Len(views) : Len(views[i].shape) = Len(views[i].strides)
  /\ \A k \in Calls("validityerror") :
       LET v == views[log[k].self]
       IN (v.shape # <<>> /\ \A d \in 1..Len(v.shape) : v.shape[d] >= 0)
            => ((log[k].ret # "") <=> Misaligned(v.strides, v.itemsize))

\* a View with a misaligned stride was constructed and validityerror
\* reported it
C7_Witness ==
  \E k \in Calls("validityerror") :
    /\ Misaligned(views[log[k].self].strides, views[log[k].self].itemsize)
    /\ log[k].ret = "shape[i] % itemsize != 0"
    /\ \E j \in Calls("NumpyArray") : log[j].out = log[k].self

\* C8: reading any multi-index through v and through v.contiguous() gives
\* the same element, and contiguous() applied to the result of contiguous()
\* gives the same buffer bytes, shape, strides and byteoffset.
C8_ContiguousRoundTrip ==
  \A k \in Calls("contiguous") :
    LET v == views[log[k].self]
        c == views[log[k].out]
    IN /\ SameElements(heap, v, c)
       /\ \A j \in Calls("contiguous") :
            log[j].self = log[k].out =>
              LET c2 == views[log[j].out]
              IN /\ heap[c2.ptr] = heap[c.ptr]
                 /\ c2.shape = c.shape
                 /\ c2.strides = c.strides
                 /\ c2.byteoffset = c.byteoffset

\* contiguous() was applied to a 2-dimensional View with a negative stride
\* and a non-zero byteoffset, and then again to its result
C8_Witness ==
  \E k \in Calls("contiguous"), j \in Calls("contiguous") :
    /\ log[j].self = log[k].out
    /\ ndim(views[log[k].self]) = 2
    /\ Product(views[log[k].self].shape) > 1
    /\ \E d \in 1..2 : views[log[k].self].strides[d] < 0
    /\ views[log[k].self].byteoffset > 0

\* C9: contiguous() returns a View of the same shape whose strides are
\* packed; it aliases the input's buffer at the same byteoffset when the
\* input is already packed and is over a newly allocated buffer otherwise.
C9_ContiguousResult ==
  \A k \in Calls("contiguous") :
    LET v == views[log[k].self]
        c == views[log[k].out]
    IN /\ c.shape = v.shape
       /\ Packed(c)
       /\ iscontiguous(c)
       /\ Packed(v) => (c.ptr = v.ptr /\ c.byteoffset = v.byteoffset)
       /\ ~Packed(v) => \A i \in 1..(log[k].out - 1) : views[i].ptr # c.ptr

\* contiguous() was applied to a 3-dimensional View that is not packed
C9_Witness ==
  \E k \in Calls("contiguous") :
    /\ ndim(views[log[k].self]) = 3
    /\ Product(views[log[k].self].shape) > 1
    /\ ~Packed(views[log[k].self])
    /\ views[log[k].out].ptr > 1

\* C10: deep_copy with copyarrays returns a packed View with the same
\* elements over a buffer that is not the source View's buffer, for every
\* source View.
C10_DeepCopyFreshBuffer ==
  \A k \in Calls("deep_copy") :
    log[k].arg.copyarrays =>
      LET v == views[log[k].self]
          c == views[log[k].out]
      IN /\ Packed(c)
         /\ SameElements(heap, v, c)
         /\ c.ptr # v.ptr

(***************************************************************************)
(* Properties of merge and mergeable.                                      *)
(***************************************************************************)
Receiver(k) == views[log[k].self]

Argument(k) == views[log[k].other]

EqualParameters(k) == Receiver(k).parameters = Argument(k).parameters

ByteTagged(v) == v.parameters \in {"byte", "char"}

\* both operands are byte/char-tagged 1-dimensional arrays of 1-byte items
BytesFastPath(k) ==
  /\ ByteTagged(Receiver(k)) /\ ByteTagged(Argument(k))
  /\ ndim(Receiver(k)) = 1 /\ ndim(Argument(k)) = 1
  /\ Receiver(k).itemsize = 1 /\ Argument(k).itemsize = 1

\* the two operands have the same ndim and differ in an inner extent
InnerExtentsDiffer(k) ==
  /\ ndim(Receiver(k)) = ndim(Argument(k))
  /\ \E d \in 2..ndim(Receiver(k)) :
       Receiver(k).shape[d] # Argument(k).shape[d]

\* the call goes through the promotion chain
Promotes(k) ==
  /\ EqualParameters(k)
  /\ ndim(Receiver(k)) > 0
  /\ ndim(Receiver(k)) = ndim(Argument(k))
  /\ ~BytesFastPath(k)

\* the dtype of the result: of the View returned, or the one selected
\* before the call threw
ResultDtype(k) ==
  IF log[k].out # 0 THEN views[log[k].out].dtype ELSE log[k].arg.dtype

Swapped(k, j) == log[k].self = log[j].other /\ log[k].other = log[j].self

\* the leading extent of the result is the sum of the operands' leading
\* extents and the inner extents are the receiver's
ConcatenatedShape(k) ==
  LET r == views[log[k].out]
  IN /\ ndim(r) = ndim(Receiver(k))
     /\ r.shape[1] = Receiver(k).shape[1] + Argument(k).shape[1]
     /\ \A d \in 2..ndim(r) : r.shape[d] = Receiver(k).shape[d]

\* C1 as stated: for every pair of dtypes for which merge selects a result
\* dtype, merge of a with b and merge of b with a select the same result
\* dtype, and a returned View has the sum of the leading extents and the
\* inner extents unchanged.
C1_MergeDtypeCommutes ==
  /\ \A k \in Calls("merge"), j \in Calls("merge") :
       (Swapped(k, j) /\ ResultDtype(k) # "NOT_PRIMITIVE"
          /\ ResultDtype(j) # "NOT_PRIMITIVE")
         => ResultDtype(k) = ResultDtype(j)
  /\ \A k \in Calls("merge") : log[k].out # 0 => ConcatenatedShape(k)

\* C1 (amended): the selected result dtype is the same in both orders for
\* every merge that goes through the promotion chain; a merge of two
\* byte/char-tagged 1-dimensional 1-byte Views skips promotion and returns
\* the receiver's dtype; every returned View has the sum of the leading
\* extents and the receiver's inner extents.
C1_MergeDtypeCommutesOffFastPath ==
  /\ \A k \in Calls("merge"), j \in Calls("merge") :
       (Swapped(k, j) /\ Promotes(k)) => log[k].arg.dtype = log[j].arg.dtype
  /\ \A k \in Calls("merge") :
       (EqualParameters(k) /\ BytesFastPath(k))
         => (log[k].out # 0 /\ ResultDtype(k) = Receiver(k).dtype)
  /\ \A k \in Calls("merge") : log[k].out # 0 => ConcatenatedShape(k)

\* two Views of different dtypes were merged in both orders through the
\* promotion chain and both merges returned a View
C1_Witness ==
  \E k \in Calls("merge"), j \in Calls("merge") :
    /\ Swapped(k, j) /\ Promotes(k)
    /\ Receiver(k).dtype # Argument(k).dtype
    /\ log[k].out # 0 /\ log[j].out # 0
    /\ ndim(Receiver(k)) = 2

\* the elements of a 1-dimensional View, in order
Elements(v) == [i \in 1..v.shape[1] |-> ReadBytes(heap, v, <<i - 1>>)]

\* little-endian IEEE 754 bytes of 1.0, 2.0, 3.0, 4.5, 5.5
Float32Values == <<<<0, 0, 128, 63>>, <<0, 0, 0, 64>>, <<0, 0, 64, 64>>,
                   <<0, 0, 144, 64>>, <<0, 0, 176, 64>>>>

Float64Values == <<<<0, 0, 0, 0, 0, 0, 240, 63>>, <<0, 0, 0, 0, 0, 0, 0, 64>>,
                   <<0, 0, 0, 0, 0, 0, 8, 64>>, <<0, 0, 0, 0, 0, 0, 18, 64>>,
                   <<0, 0, 0, 0, 0, 0, 22, 64>>>>

\* the receiver is the int8 View [1, 2, 3] and the argument the float32
\* View [4.5, 5.5], with equal parameters
Int8Float32Merge(k) ==
  /\ EqualParameters(k)
  /\ Receiver(k).dtype = "int8" /\ Receiver(k).shape = <<3>>
  /\ Elements(Receiver(k)) = <<<<1>>, <<2>>, <<3>>>>
  /\ Argument(k).dtype = "float32" /\ Argument(k).shape = <<2>>
  /\ Elements(Argument(k)) = SubSeq(Float32Values, 4, 5)

\* C2 as stated: merging int8 [1, 2, 3] with float32 [4.5, 5.5] returns a
\* float64 View of length 5 holding 1.0, 2.0, 3.0, 4.5, 5.5.
C2_Int8Float32GivesFloat64 ==
  \A k \in Calls("merge") :
    Int8Float32Merge(k) =>
      /\ log[k].out # 0
      /\ views[log[k].out].dtype = "float64"
      /\ views[log[k].out].shape = <<5>>
      /\ Elements(views[log[k].out]) = Float64Values

\* C2 (amended): merging int8 [1, 2, 3] with float32 [4.5, 5.5] returns a
\* packed float32 View of length 5 holding 1.0, 2.0, 3.0, 4.5, 5.5 (a float32
\* merged with an 8- or 16-bit integer gives float32; only 32- and 64-bit
\* integers give float64).
C2_Int8Float32GivesFloat32 ==
  \A k \in Calls("merge") :
    Int8Float32Merge(k) =>
      /\ log[k].out # 0
      /\ views[log[k].out].dtype = "float32"
      /\ views[log[k].out].itemsize = 4
      /\ views[log[k].out].shape = <<5>>
      /\ Packed(views[log[k].out])
      /\ Elements(views[log[k].out]) = Float32Values

\* int8 [1, 2, 3] was merged with float32 [4.5, 5.5] and a View came back
C2_Witness ==
  \E k \in Calls("merge") : Int8Float32Merge(k) /\ log[k].out # 0

\* one operand has dtype a and the other has dtype b
Pair(k, A, B) ==
  \/ Receiver(k).dtype \in A /\ Argument(k).dtype \in B
  \/ Receiver(k).dtype \in B /\ Argument(k).dtype \in A

SignedIntegers == {"int8", "int16", "int32", "int64"}

UnsignedIntegers == {"uint8", "uint16", "uint32", "uint64"}

Complexes == {"complex64", "complex128", "complex256"}

NumericCompatible(a, b, mergebool) ==
  /\ a # "NOT_PRIMITIVE" /\ b # "NOT_PRIMITIVE"
  /\ (a = "boolean" \/ b = "boolean") => (a = b \/ mergebool)

\* C4: for a non-scalar receiver and equal parameters, mergeable returns
\* true exactly when the two Views have the same ndim, equal inner extents
\* and a numeric-compatible dtype pair; in particular it returns false when
\* either dtype is not a numeric or boolean primitive.
C4_MergeableIffCompatible ==
  \A k \in Calls("mergeable") :
    (EqualParameters(k) /\ ndim(Receiver(k)) > 0) =>
      ((log[k].ret = "true")
         <=> /\ ndim(Receiver(k)) = ndim(Argument(k))
             /\ ~InnerExtentsDiffer(k)
             /\ NumericCompatible(Receiver(k).dtype, Argument(k).dtype,
                                  log[k].arg.mergebool))

\* the merge is between a boolean View and a complex View
BoolComplex(k) == Pair(k, {"boolean"}, Complexes)

\* C5 as stated: merge of a boolean View with a complex View raises
\* TypeError and returns no View.
C5_BoolComplexTypeError ==
  \A k \in Calls("merge") :
    BoolComplex(k) => (log[k].err \in TypeErrors /\ log[k].out = 0)

\* C5 (amended): merge of a boolean View with a complex View with equal
\* parameters returns no View and never raises TypeError: it raises
\* ShapeError when the receiver is a scalar, ndim differs or an inner extent
\* differs, and otherwise selects the complex dtype and raises
\* NotImplemented.
C5_BoolComplexNotImplemented ==
  \A k \in Calls("merge") :
    (BoolComplex(k) /\ EqualParameters(k)) =>
      /\ log[k].out = 0
      /\ log[k].err \notin TypeErrors
      /\ IF Promotes(k) /\ ~InnerExtentsDiffer(k)
           THEN /\ log[k].err \in NotImplementedErrors
                /\ log[k].arg.dtype \in Complexes
           ELSE log[k].err \in ShapeErrors

\* a boolean View was merged with a complex View of the same shape and the
\* merge raised NotImplemented
C5_Witness ==
  \E k \in Calls("merge") :
    /\ BoolComplex(k) /\ Promotes(k) /\ ~InnerExtentsDiffer(k)
    /\ log[k].err \in NotImplementedErrors

\* C6 as stated: merge raises ShapeError and returns no View when the
\* receiver is a scalar, when ndim differs, or when an inner extent
\* differs.
C6_MergeShapeErrors ==
  \A k \in Calls("merge") :
    (\/ ndim(Receiver(k)) = 0
     \/ ndim(Receiver(k)) # ndim(Argument(k))
     \/ InnerExtentsDiffer(k))
      => (log[k].err \in ShapeErrors /\ log[k].out = 0)

\* C6 (amended): for operands with equal parameters, merge raises
\* ShapeError when the receiver is a scalar or ndim differs; when an inner
\* extent differs it raises ShapeError if the dtype pair selects a result
\* dtype and TypeError if it selects none; in each case no View is returned.
\* Operands with different parameters are merged as a union instead.
C6_MergeShapeErrorsAfterPromotion ==
  \A k \in Calls("merge") :
    /\ (EqualParameters(k)
         /\ (ndim(Receiver(k)) = 0 \/ ndim(Receiver(k)) # ndim(Argument(k))))
         => (log[k].err \in ShapeErrors /\ log[k].out = 0)
    /\ (EqualParameters(k) /\ InnerExtentsDiffer(k))
         => /\ log[k].out = 0
            /\ IF Pair(k, {"NOT_PRIMITIVE", "boolean"},
                       {"NOT_PRIMITIVE", "boolean"})
                  /\ ~Pair(k, {"boolean"}, {"boolean"})
                 THEN log[k].err \in TypeErrors
                 ELSE log[k].err \in ShapeErrors
    /\ ~EqualParameters(k)
         => (log[k].err = "" /\ log[k].ret = "UnionArray")

\* merge raised ShapeError for two 2-dimensional Views that differ in the
\* inner extent
C6_Witness ==
  \E k \in Calls("merge") :
    /\ EqualParameters(k) /\ InnerExtentsDiffer(k)
    /\ ndim(Receiver(k)) = 2
    /\ log[k].err \in ShapeErrors

(***************************************************************************)
(* Slicing claims.                                                         *)
(***************************************************************************)
\* the slice consists of At items only
OnlyAts(slice) == \A d \in 1..Len(slice) : slice[d].kind = "at"

\* the position an At index selects in an extent: itself, or itself plus the
\* extent when negative
Wrapped(at, extent) == IF at < 0 THEN at + extent ELSE at

\* the View of the element (or sub-array) of v at the leading positions pos
Selected(v, pos) ==
  [v EXCEPT !.shape = SubSeq(v.shape, Len(pos) + 1, Len(v.shape)),
            !.strides = SubSeq(v.strides, Len(pos) + 1, Len(v.strides)),
            !.byteoffset = v.byteoffset
                           + Dot(pos, SubSeq(v.strides, 1, Len(pos)))]

\* the same shape and the same element bytes
SameContent(a, b) == SameElements(heap, a, b)

\* the outcome C11 states for a sequence of At indices applied to the leading
\* dimensions of v: IndexError and no View when some index lies outside
\* [-N, N) of its extent N, otherwise the selected positions
AtOutcome(k, v, ats) ==
  LET pos == [d \in 1..Len(ats) |-> Wrapped(ats[d], v.shape[d])]
  IN IF \E d \in 1..Len(ats) : ats[d] < -v.shape[d] \/ ats[d] >= v.shape[d]
       THEN log[k].err \in IndexErrors /\ log[k].out = 0
       ELSE /\ log[k].err = ""
            /\ log[k].out # 0
            /\ SameContent(views[log[k].out], Selected(v, pos))

\* the identities of v, if any, are at least as long as its first dimension
IdentitiesCover(v) ==
  v.identities.present => Len(v.identities.ids) >= v.shape[1]

\* the calls of getitem_at, and of getitem with a slice of At items only that
\* does not exceed the dimensions of the receiver
AtCalls ==
  Calls("getitem_at")
  \cup {k \in Calls("getitem") :
          /\ log[k].arg # <<>>
          /\ OnlyAts(log[k].arg)
          /\ Len(log[k].arg) <= ndim(views[log[k].self])}

\* the At indices of such a call
AtsOf(k) ==
  IF log[k].op = "getitem_at" THEN <<log[k].arg>>
  ELSE [d \in 1..Len(log[k].arg) |-> log[k].arg[d].at]

ClampedBound(x, extent) ==
  LET w == IF x < 0 THEN x + extent ELSE x
  IN IF w < 0 THEN 0 ELSE IF w > extent THEN extent ELSE w

\* the indices of the half-open interval of a range of step 1 on an extent,
\* in order
RangeIndices(r, extent) ==
  LET a == IF r.hasstart THEN ClampedBound(r.start, extent) ELSE 0
      b == IF r.hasstop THEN ClampedBound(r.stop, extent) ELSE extent
  IN [j \in 1..(IF b > a THEN b - a ELSE 0) |-> a + j - 1]

\* the calls of getitem_range, and of getitem with one Range of step 1, on a
\* 1-dimensional View
UnitRangeCalls ==
  {k \in Calls("getitem_range") \cup Calls("getitem") :
     /\ ndim(views[log[k].self]) = 1
     /\ log[k].op = "getitem" =>
          /\ Len(log[k].arg) = 1
          /\ log[k].arg[1].kind = "range"
          /\ log[k].arg[1].hasstep
          /\ log[k].arg[1].step = 1}

RangeOf(k) == IF log[k].op = "getitem" THEN log[k].arg[1] ELSE log[k].arg

\* the call returned a View with one element per index of the interval, the
\* j-th being the element getitem_at returns for the j-th index
RangeOutcome(k) ==
  LET v == views[log[k].self]
      idx == RangeIndices(RangeOf(k), v.shape[1])
  IN /\ log[k].err = ""
     /\ log[k].out # 0
     /\ views[log[k].out].shape = <<Len(idx)>>
     /\ \A j \in 1..Len(idx) :
          LET e == getitem_at(v, idx[j])
          IN /\ e.err = ""
             /\ SameContent(Selected(views[log[k].out], <<j - 1>>), e.view)

OnlyRanges(slice) == \A d \in 1..Len(slice) : slice[d].kind = "range"

\* the step of a Range item (1 when none is given)
StepOf(r) == IF r.hasstep THEN r.step ELSE 1

\* the bounds of a Range item normalized and clamped to an extent in the
\* direction of its step
Bounds(r, extent) ==
  regularize_rangeslice(r.start, r.stop, StepOf(r) > 0, r.hasstart,
                        r.hasstop, extent)

\* n / d rounded up
Ceil(n, d) == (n + d - 1) \div d

\* the calls of getitem resolved by strides (no identities, no Array item)
\* with a non-empty slice of Range items only that does not exceed the
\* dimensions of the receiver
StridedRangeCalls ==
  {k \in Calls("getitem") :
     /\ ~views[log[k].self].identities.present
     /\ log[k].arg # <<>>
     /\ OnlyRanges(log[k].arg)
     /\ Len(log[k].arg) <= ndim(views[log[k].self])}

\* C13: by strides, a Range(start, stop, step) on a dimension of extent N and
\* stride s gives a dimension of extent ceil(|stop' - start'| / |step|) and
\* stride s * step, advances the byte offset by start' * s and allocates
\* nothing, and every index start' + j * step of the result lies in [0, N)
C13_RangeByStrides ==
  \A k \in StridedRangeCalls :
    LET v == views[log[k].self]
        slice == log[k].arg
        b == [d \in 1..Len(slice) |-> Bounds(slice[d], v.shape[d])]
        starts == [d \in 1..Len(slice) |-> b[d][1]]
    IN /\ log[k].err = ""
       /\ log[k].out # 0
       /\ LET r == views[log[k].out]
          IN /\ r.ptr = v.ptr
             /\ ndim(r) = ndim(v)
             /\ r.byteoffset
                  = v.byteoffset + Dot(starts, SubSeq(v.strides, 1, Len(slice)))
             /\ \A d \in 1..Len(slice) :
                  /\ r.shape[d]
                       = Ceil(Abs(b[d][2] - b[d][1]), Abs(StepOf(slice[d])))
                  /\ r.strides[d] = v.strides[d] * StepOf(slice[d])
                  /\ \A j \in 0..(r.shape[d] - 1) :
                       /\ b[d][1] + j * StepOf(slice[d]) >= 0
                       /\ b[d][1] + j * StepOf(slice[d]) < v.shape[d]
             /\ \A d \in (Len(slice) + 1)..ndim(v) :
                  r.shape[d] = v.shape[d] /\ r.strides[d] = v.strides[d]

\* a Range of step 2 that returned ceil(GetitemLen / 2) elements and a Range
\* of negative step that returned all of them, reversed
C13_Witness ==
  /\ \E k \in StridedRangeCalls :
       /\ log[k].arg = <<SliceRange(0, GetitemLen, 2)>>
       /\ views[log[k].self].shape[1] = GetitemLen
       /\ log[k].out # 0
       /\ views[log[k].out].shape[1] = (GetitemLen + 1) \div 2
  /\ \E k \in StridedRangeCalls :
       /\ log[k].arg = <<SliceRangeNone(-1)>>
       /\ log[k].out # 0
       /\ views[log[k].out].strides[1] < 0

IsField(item) == item.kind \in {"field", "fields"}

\* the calls of getitem whose slice contains a Field or Fields item
FieldSliceCalls ==
  {k \in Calls("getitem") :
     \E d \in 1..Len(log[k].arg) : IsField(log[k].arg[d])}

\* the items of a slice before its first Field or Fields item
BeforeField(slice) ==
  LET first == CHOOSE d \in 1..Len(slice) :
                 /\ IsField(slice[d])
                 /\ \A e \in 1..(d - 1) : ~IsField(slice[e])
  IN SubSeq(slice, 1, first - 1)

RECURSIVE WithinDims(_, _)
WithinDims(slice, n) ==
  IF slice = <<>> THEN <<>>
  ELSE IF Head(slice).kind \in {"at", "range", "array"}
    THEN IF n = 0 THEN <<>>
         ELSE <<Head(slice)>> \o WithinDims(Tail(slice), n - 1)
    ELSE <<Head(slice)>> \o WithinDims(Tail(slice), n)

\* the calls of getitem whose At, Range and Array items are more than the
\* dimensions of the (non-scalar) receiver
TooManyDimsCalls ==
  {k \in Calls("getitem") :
     /\ ~isscalar(views[log[k].self])
     /\ dimlength(log[k].arg) > ndim(views[log[k].self])}

ScalarCalls == {k \in Calls("getitem") : isscalar(views[log[k].self])}

\* C15 as stated: getitem raises ShapeError and returns no View when the
\* receiver is a scalar and when the At, Range and Array items of the slice
\* are more than the dimensions of the receiver, by strides and by carry
C15_ShapeErrors ==
  \A k \in ScalarCalls \cup TooManyDimsCalls :
    log[k].err \in ShapeErrors /\ log[k].out = 0

\* C15, with the order of evaluation: getitem on a scalar raises ShapeError;
\* getitem with more At, Range and Array items than dimensions returns no
\* View and raises ShapeError unless the items that fit the dimensions fail
\* by themselves, and then it raises their IndexError or TypeError
C15_ShapeErrorsWhenReached ==
  /\ \A k \in ScalarCalls : log[k].err \in ShapeErrors /\ log[k].out = 0
  /\ \A k \in TooManyDimsCalls :
       LET v == views[log[k].self]
           pre == getitem(heap, v, WithinDims(log[k].arg, ndim(v)))
       IN /\ log[k].out = 0
          /\ log[k].err \in ShapeErrors \cup IndexErrors \cup TypeErrors
          /\ log[k].err \notin ShapeErrors => pre.err = log[k].err
          /\ pre.err = "" => log[k].err = "too many dimensions in slice"

\* too many At items by strides and too many items after an Array by carry
C15_Witness ==
  /\ \E k \in TooManyDimsCalls :
       /\ ~isadvanced(log[k].arg)
       /\ ~views[log[k].self].identities.present
       /\ log[k].err = "too many dimensions in slice"
  /\ \E k \in TooManyDimsCalls :
       /\ isadvanced(log[k].arg)
       /\ log[k].err = "too many dimensions in slice"

\* the calls of getitem with the single Array index [0, 1, ..., N - 1] on a
\* View of leading extent N
ArangeCalls ==
  {k \in Calls("getitem") :
     /\ ~isscalar(views[log[k].self])
     /\ log[k].arg = <<SliceArray64(<<views[log[k].self].shape[1]>>,
                                    Arange(views[log[k].self].shape[1]))>>}

\* the call returned a View of the shape and the elements of its receiver
SameAsReceiver(k) ==
  /\ log[k].err = ""
  /\ log[k].out # 0
  /\ SameContent(views[log[k].out], views[log[k].self])

\* C16, for receivers whose identities (if any) cover their length: getitem
\* with the single Array index [0, 1, ..., N - 1] on a View of leading extent
\* N returns a View with the same shape and the same element at every
\* multi-index
C16_ArangeIsIdentityCovered ==
  \A k \in ArangeCalls :
    IdentitiesCover(views[log[k].self]) => SameAsReceiver(k)

\* C16 as stated: the same for every View
C16_ArangeIsIdentity == \A k \in ArangeCalls : SameAsReceiver(k)

\* the index [0, ..., N - 1] applied to a 2-dimensional View that is not
\* contiguous, returning a View over a new buffer
C16_Witness ==
  \E k \in ArangeCalls :
    /\ ndim(views[log[k].self]) = 2
    /\ ~iscontiguous(views[log[k].self])
    /\ log[k].out # 0
    /\ views[log[k].out].ptr # views[log[k].self].ptr
    /\ views[log[k].out].shape = views[log[k].self].shape

(***************************************************************************)
(* Index array claims.                                                     *)
(***************************************************************************)
\* the value of the k-th element of a 1-dimensional integer View
ElementValue(v, k) == DecodeInt(ReadBytes(heap, v, <<k - 1>>), v.dtype)

\* the positions of the elements of a 1-dimensional boolean View that are
\* not zero
TruePositions(v) ==
  {k \in 0..(v.shape[1] - 1) : ReadBytes(heap, v, <<k>>)[1] # 0}

\* the int64 values of an index
IndexValues(index) == [j \in 1..Len(index) |-> DecodeInt(index[j], "int64")]

\* what C17 states for one call of asslice
AsIndexOutcome(k) ==
  LET v == views[log[k].self]
  IN IF ndim(v) = 1 /\ v.dtype = "boolean"
       THEN /\ log[k].err = ""
            /\ LET vals == IndexValues(log[k].ret.index)
               IN /\ {vals[j] : j \in 1..Len(vals)} = TruePositions(v)
                  /\ \A j \in 1..(Len(vals) - 1) : vals[j] < vals[j + 1]
     ELSE IF ndim(v) = 1 /\ IsIntegerDtype(v.dtype)
       THEN /\ log[k].err = ""
            /\ Len(log[k].ret.index) = v.shape[1]
            /\ \A j \in 1..v.shape[1] :
                 log[k].ret.index[j] = EncodeInt(ElementValue(v, j), 8)
     ELSE log[k].err \in TypeErrors

\* C17 as stated: asslice of a 1-dimensional boolean View returns the
\* positions of its true elements in increasing order, of a 1-dimensional
\* integer View of any width and stride the int64 values of its elements in
\* order, and raises TypeError for any other dtype or number of dimensions
C17_AsIndex == \A k \in Calls("asslice") : AsIndexOutcome(k)

\* the byte offset of the View is a multiple of its itemsize
AlignedOffset(v) == v.byteoffset % v.itemsize = 0

\* C17 for Views whose byte offset is a multiple of the itemsize
C17_AsIndexAligned ==
  \A k \in Calls("asslice") :
    AlignedOffset(views[log[k].self]) => AsIndexOutcome(k)

(***************************************************************************)
(* Segmented reduce and sort claims.                                       *)
(***************************************************************************)
\* the value of the k-th element of a 1-dimensional View of a boolean,
\* integer or (integer-valued) floating-point type
ValueAt(v, k) ==
  LET bytes == ReadBytes(heap, v, <<k - 1>>)
  IN IF v.dtype = "boolean" THEN (IF bytes[1] # 0 THEN 1 ELSE 0)
     ELSE IF v.dtype \in {"float32", "float64"} THEN FloatToInt(bytes, v.dtype)
     ELSE DecodeInt(bytes, v.dtype)

\* the values of a 1-dimensional View, in order
ValuesOf(v) == [k \in 1..v.shape[1] |-> ValueAt(v, k)] \o <<>>

\* the calls of an operation on a contiguous 1-dimensional View of a type
\* that has a reducer and a sort
SegmentedCalls(op) ==
  {k \in Calls(op) :
     LET v == views[log[k].self]
     IN ndim(v) = 1 /\ iscontiguous(v) /\ v.dtype \in SegmentedDtypes}

\* what C18 states for one call of reduce_next
ReduceOutcome(k) ==
  LET v == views[log[k].self]
      seg == log[k].arg.seg
      data == ValuesOf(v)
  IN /\ log[k].err = ""
     /\ log[k].out # 0
     /\ views[log[k].out].shape = <<seg.outlength>>
     /\ \A g \in 1..seg.outlength :
          ValueAt(views[log[k].out], g)
            = SumOver(data, {j \in 1..Len(data) : seg.parents[j] = g - 1})
     /\ (data = <<10, 20, 30, 40, 50>> /\ seg.parents = <<0, 0, 1, 1, 1>>)
          => ValuesOf(views[log[k].out]) = <<30, 120>>

\* C18 as stated: reduce_next with the sum reducer on a contiguous
\* 1-dimensional View returns a View of length outlength whose element g is
\* the sum of the data elements k with parents[k] = g, [30, 120] for the data
\* [10, 20, 30, 40, 50] with parents [0, 0, 1, 1, 1], at any byte offset
C18_ReduceSums == \A k \in SegmentedCalls("reduce_next") : ReduceOutcome(k)

\* C18 for Views whose byte offset is a multiple of the itemsize
C18_ReduceSumsAligned ==
  \A k \in SegmentedCalls("reduce_next") :
    AlignedOffset(views[log[k].self]) => ReduceOutcome(k)

\* the data [10, 20, 30, 40, 50] at a byte offset that is not zero, reduced
\* to [30, 120]
C18_ReducedAtOffset ==
  \E k \in SegmentedCalls("reduce_next") :
    /\ views[log[k].self].byteoffset # 0
    /\ ValuesOf(views[log[k].self]) = <<10, 20, 30, 40, 50>>
    /\ log[k].arg.seg.parents = <<0, 0, 1, 1, 1>>
    /\ log[k].out # 0
    /\ ValuesOf(views[log[k].out]) = <<30, 120>>

\* the runs of parents: the maximal spans of equal parent id, as sets of
\* positions
Runs(parents) ==
  {{j \in 1..Len(parents) :
      /\ parents[j] = parents[i]
      /\ \A m \in 1..Len(parents) :
           (m >= i /\ m <= j) \/ (m >= j /\ m <= i) => parents[m] = parents[i]} :
     i \in 1..Len(parents)}

\* the number of times x occurs among the elements of seq at the positions S
Count(seq, S, x) == Cardinality({j \in S : seq[j] = x})

\* what C19 states for one call of sort_next
SortOutcome(k) ==
  LET v == views[log[k].self]
      seg == log[k].arg.seg
      data == ValuesOf(v)
  IN /\ log[k].err = ""
     /\ log[k].out # 0
     /\ views[log[k].out].shape = v.shape
     /\ LET out == ValuesOf(views[log[k].out])
        IN /\ \A run \in Runs(seg.parents) :
                /\ \A j \in run : Count(out, run, data[j]) = Count(data, run, data[j])
                /\ \A i, j \in run :
                     i < j => IF log[k].arg.ascending THEN out[i] <= out[j]
                              ELSE out[i] >= out[j]
           /\ (/\ data = <<3, 1, 2, 9, 7, 8>>
               /\ seg.parents = <<0, 0, 0, 1, 1, 1>>
               /\ log[k].arg.ascending /\ log[k].arg.stable)
                => out = <<1, 2, 3, 7, 8, 9>>

\* C19 as stated: sort_next on a contiguous 1-dimensional View returns a View
\* of the same length in which the span of each run of parents is that run's
\* input elements in ascending (or descending) order, no element moving to
\* another run; [1, 2, 3, 7, 8, 9] for [3, 1, 2, 9, 7, 8] in two runs of 3,
\* ascending and stable
C19_SortsRuns == \A k \in SegmentedCalls("sort_next") : SortOutcome(k)

\* C19 for Views whose byte offset is zero
C19_SortsRunsAtStart ==
  \A k \in SegmentedCalls("sort_next") :
    views[log[k].self].byteoffset = 0 => SortOutcome(k)

\* the data [3, 1, 2, 9, 7, 8] at byte offset zero, sorted in two runs of 3
\* to [1, 2, 3, 7, 8, 9]
C19_SortedAtStart ==
  \E k \in SegmentedCalls("sort_next") :
    /\ ValuesOf(views[log[k].self]) = <<3, 1, 2, 9, 7, 8>>
    /\ log[k].arg.seg.parents = <<0, 0, 0, 1, 1, 1>>
    /\ log[k].arg.ascending
    /\ log[k].out # 0
    /\ ValuesOf(views[log[k].out]) = <<1, 2, 3, 7, 8, 9>>

(***************************************************************************)
(* Frame claims.                                                           *)
(***************************************************************************)
\* the buffers and the Views of before the step are the same after it
Untouched ==
  /\ \A b \in 1..Len(heap) : heap'[b] = heap[b]
  /\ \A i \in 1..Len(views) : views'[i] = views[i]

ThisCall == log'[Len(log')]

\* the step changes at most the identities of the receiver of a call of
\* setidentities that returned
OnlyIdentitiesAssigned ==
  /\ \A b \in 1..Len(heap) : heap'[b] = heap[b]
  /\ \A i \in 1..Len(views) :
       \/ views'[i] = views[i]
       \/ /\ ThisCall.op = "setidentities"
          /\ ThisCall.self = i
          /\ ThisCall.err = ""
          /\ views'[i] = [views[i] EXCEPT !.identities = views'[i].identities]

IdentitiesFollow(k) ==
  LET v == views[log[k].self]
      w == views[log[k].out]
  IN w.identities.present =>
       /\ Len(w.identities.ids) = length(w)
       /\ \A j \in 1..length(w) :
            \E r \in 1..length(v) :
              /\ r <= Len(v.identities.ids)
              /\ w.identities.ids[j] = v.identities.ids[r]
              /\ SameContent(Selected(w, <<j - 1>>), Selected(v, <<r - 1>>))

\* C21 as stated: starting from a View whose identities have its length,
\* every View returned by getitem_at, getitem_range, getitem or carry that
\* has identities has one identity per row, the identity of the source row
\* its row was selected from
C21_IdentitiesFollowRows ==
  \A k \in 1..Len(log) : log[k].out # 0 => IdentitiesFollow(k)

\* C21 for the calls that keep the first dimension: getitem_range, carry,
\* and getitem with a Range or Array item first, on a View whose identities
\* have its length
C21_IdentitiesFollowKeptRows ==
  \A k \in 1..Len(log) :
    (/\ log[k].out # 0
     /\ Len(views[log[k].self].identities.ids) = length(views[log[k].self])
     /\ log[k].op # "getitem_at"
     /\ log[k].op = "getitem" =>
          /\ log[k].arg # <<>>
          /\ log[k].arg[1].kind \in {"range", "array"})
      => IdentitiesFollow(k)

(***************************************************************************)
(* Kernel library claims.                                                  *)
(***************************************************************************)
\* what C22 states for one call of copy_to
CopyToOutcome(k) ==
  LET v == views[log[k].self]
  IN IF log[k].arg = v.ptr_lib
       THEN /\ log[k].err = ""
            /\ log[k].out # 0
            /\ views[log[k].out] = v
     ELSE IF v.dtype \in {"float16", "float128"} \/ is_complex(v.dtype)
       THEN log[k].err \in NotImplementedErrors /\ log[k].out = 0
     ELSE IF v.dtype = "NOT_PRIMITIVE" THEN log[k].out = 0
     ELSE /\ log[k].err = ""
          /\ log[k].out # 0
          /\ views[log[k].out].dtype = v.dtype
          /\ views[log[k].out].ptr_lib = log[k].arg
          /\ InBounds(heap, views[log[k].out])
          /\ SameElements(heap, views[log[k].out], v)

\* C22 as stated: copy_to another library returns a View with the shape, the
\* dtype and the element at every multi-index of its receiver, whatever the
\* byte offset and strides of the receiver; copy_to the receiver's own
\* library returns an alias of it; float16, float128 and complex dtypes
\* raise NotImplemented
C22_CopyTo == \A k \in Calls("copy_to") : CopyToOutcome(k)

\* C22 for contiguous receivers with byte offset zero
C22_CopyToPackedAtStart ==
  \A k \in Calls("copy_to") :
    (views[log[k].self].byteoffset = 0 /\ iscontiguous(views[log[k].self]))
      => CopyToOutcome(k)

(***************************************************************************)
(* Slice resolution claims.  What a slice of At, Range, Ellipsis and       *)
(* NewAxis items denotes on a View, as NumPy defines it.                   *)
(***************************************************************************)
BasicKinds == {"at", "range", "ellipsis", "newaxis"}

OnlyBasic(slice) == \A d \in 1..Len(slice) : slice[d].kind \in BasicKinds

Ellipses(slice) == {d \in 1..Len(slice) : slice[d].kind = "ellipsis"}

\* the number of dimensions the items of a slice consume
Consumed(slice) ==
  Cardinality({d \in 1..Len(slice) :
                 slice[d].kind \in {"at", "range", "array"}})

\* a bound wrapped once when negative, then clamped to [lo, hi]
Clamp(x, extent, lo, hi) ==
  LET w == IF x < 0 THEN x + extent ELSE x
  IN IF w < lo THEN lo ELSE IF w > hi THEN hi ELSE w

\* the indices a Range selects from an extent, in order
PyIndices(r, extent) ==
  LET step == StepOf(r)
  IN IF step > 0
       THEN LET a == IF r.hasstart THEN Clamp(r.start, extent, 0, extent)
                     ELSE 0
                b == IF r.hasstop THEN Clamp(r.stop, extent, 0, extent)
                     ELSE extent
            IN [j \in 1..(IF b > a THEN Ceil(b - a, step) ELSE 0) |->
                  a + (j - 1) * step]
       ELSE LET a == IF r.hasstart
                       THEN Clamp(r.start, extent, -1, extent - 1)
                     ELSE extent - 1
                b == IF r.hasstop THEN Clamp(r.stop, extent, -1, extent - 1)
                     ELSE -1
            IN [j \in 1..(IF a > b THEN Ceil(a - b, -step) ELSE 0) |->
                  a + (j - 1) * step]

\* the slice with its Ellipsis replaced by whole Ranges for the dimensions
\* the other items leave, and whole Ranges added for the dimensions after
\* the last item
Expanded(slice, n) ==
  LET whole == [j \in 1..(n - Consumed(slice)) |-> SliceRangeNone(1)]
  IN IF Ellipses(slice) = {} THEN slice \o whole
     ELSE LET p == CHOOSE d \in Ellipses(slice) : TRUE
          IN SubSeq(slice, 1, p - 1) \o whole
             \o SubSeq(slice, p + 1, Len(slice))

\* the items of an expanded slice select inside the extents from dimension d
RECURSIVE Selects(_, _, _)
Selects(items, shape, d) ==
  IF items = <<>> THEN TRUE
  ELSE IF Head(items).kind = "newaxis" THEN Selects(Tail(items), shape, d)
  ELSE /\ Head(items).kind = "at" =>
            /\ -shape[d] <= Head(items).at
            /\ Head(items).at < shape[d]
       /\ Selects(Tail(items), shape, d + 1)

\* the slice denotes a selection from a View of this shape
Denotes(slice, shape) ==
  /\ OnlyBasic(slice)
  /\ Cardinality(Ellipses(slice)) <= 1
  /\ Consumed(slice) <= Len(shape)
  /\ Selects(Expanded(slice, Len(shape)), shape, 1)

\* the shape of the selection
RECURSIVE DenotedShape(_, _, _)
DenotedShape(items, shape, d) ==
  IF items = <<>> THEN <<>>
  ELSE IF Head(items).kind = "newaxis"
    THEN <<1>> \o DenotedShape(Tail(items), shape, d)
  ELSE IF Head(items).kind = "at" THEN DenotedShape(Tail(items), shape, d + 1)
  ELSE <<Len(PyIndices(Head(items), shape[d]))>>
       \o DenotedShape(Tail(items), shape, d + 1)

\* the multi-index of the source element at a multi-index of the selection
RECURSIVE DenotedIndex(_, _, _, _)
DenotedIndex(items, shape, d, ix) ==
  IF items = <<>> THEN <<>>
  ELSE IF Head(items).kind = "newaxis"
    THEN DenotedIndex(Tail(items), shape, d, Tail(ix))
  ELSE IF Head(items).kind = "at"
    THEN <<Wrapped(Head(items).at, shape[d])>>
         \o DenotedIndex(Tail(items), shape, d + 1, ix)
  ELSE <<PyIndices(Head(items), shape[d])[Head(ix) + 1]>>
       \o DenotedIndex(Tail(items), shape, d + 1, Tail(ix))

\* multi-indices as sequences
IndexSeqs(shape) == {ix \o <<>> : ix \in Indices(shape)}

\* the View w is the selection the slice denotes on v, every element of w
\* lying at the byte position of the element of v it denotes
SelectsInPlace(w, v, slice) ==
  LET items == Expanded(slice, ndim(v))
  IN /\ w.ptr = v.ptr
     /\ w.shape = DenotedShape(items, v.shape, 1)
     /\ \A ix \in IndexSeqs(w.shape) :
          BytePos(w, ix) = BytePos(v, DenotedIndex(items, v.shape, 1, ix))

\* what C23 states of the branch
StridesBranchWhenPlain(v, slice) ==
  getitem_branch(v, slice) = "bystrides"
    <=> /\ \A d \in 1..Len(slice) :
             slice[d].kind \notin {"array", "missing", "jagged"}
        /\ ~v.identities.present

\* C23: on a View of at least one dimension, getitem resolves the slice by
\* strides exactly when the slice has no Array, Missing or Jagged item and
\* the View has no identities; a call resolved by strides allocates no
\* buffer, and the View it returns shares the buffer of its receiver, every
\* element at the byte position of the source element it denotes
C23_ByStridesInPlace ==
  [][LET v == views[ThisCall.self]
         slice == ThisCall.arg
     IN (ThisCall.op = "getitem" /\ ~isscalar(v)) =>
          /\ StridesBranchWhenPlain(v, slice)
          /\ getitem_branch(v, slice) = "bystrides" =>
               /\ heap' = heap
               /\ ThisCall.out # 0 =>
                    /\ Denotes(slice, v.shape)
                    /\ SelectsInPlace(views'[ThisCall.out], v, slice)]_vars

\* a 3-dimensional View without identities sliced by strides into a View of
\* 2 dimensions that starts elsewhere in the same buffer
C23_Witness ==
  \E k \in Calls("getitem") :
    /\ getitem_branch(views[log[k].self], log[k].arg) = "bystrides"
    /\ ndim(views[log[k].self]) = 3
    /\ Len(log[k].arg) >= 2
    /\ log[k].out # 0
    /\ ndim(views[log[k].out]) = 2
    /\ views[log[k].out].ptr = views[log[k].self].ptr
    /\ views[log[k].out].byteoffset # views[log[k].self].byteoffset

\* the kind of error a message stands for ("" for no error)
KindOf(msg) ==
  IF msg = "" THEN ""
  ELSE IF msg \in IndexErrors THEN "IndexError"
  ELSE IF msg \in ShapeErrors THEN "ShapeError"
  ELSE IF msg \in TypeErrors THEN "TypeError"
  ELSE IF msg \in NotImplementedErrors THEN "NotImplemented"
  ELSE "other"

\* the getitem calls that went by carry for a slice of At, Range, Ellipsis
\* and NewAxis items: their receiver has identities
CarriedBasic ==
  {k \in Calls("getitem") :
     /\ OnlyBasic(log[k].arg)
     /\ getitem_branch(views[log[k].self], log[k].arg) = "next"}

\* call k ended as the by-strides resolution of the same slice on the same
\* View without its identities does
AsByStrides(k) ==
  LET v == views[log[k].self]
      plain == getitem(heap, [v EXCEPT !.identities = NoIdentities],
                       log[k].arg)
  IN /\ getitem_branch([v EXCEPT !.identities = NoIdentities], log[k].arg)
          = "bystrides"
     /\ KindOf(log[k].err) = KindOf(plain.err)
     /\ plain.err = "" =>
          /\ log[k].out # 0
          /\ SameElements(heap \o plain.alloc, views[log[k].out], plain.view)

\* C24: a slice of At, Range, Ellipsis and NewAxis items resolved by carry on
\* a View with identities ends as its resolution by strides on the same View
\* without identities: the same kind of error, or Views of the same shape
\* with the same element at every multi-index
C24_CarryAsStrides == \A k \in CarriedBasic : AsByStrides(k)

\* the statement of C24 for the Views that are not empty and whose
\* identities have one row for each of their rows
C24_CarryAsStridesCovered ==
  \A k \in CarriedBasic :
    (/\ views[log[k].self].shape[1] > 0
     /\ Len(views[log[k].self].identities.ids) = views[log[k].self].shape[1])
      => AsByStrides(k)

(***************************************************************************)
(* Array indices in a slice.                                               *)
(***************************************************************************)
Arrays(slice) == {d \in 1..Len(slice) : slice[d].kind = "array"}

\* the position in row-major order of a multi-index into a shape
RECURSIVE FlatPos(_, _)
FlatPos(ix, shape) ==
  IF shape = <<>> THEN 0
  ELSE FlatPos(SubSeq(ix, 1, Len(ix) - 1), SubSeq(shape, 1, Len(shape) - 1))
         * shape[Len(shape)]
       + ix[Len(ix)]

\* a slice of At, Range and Array items, whole Ranges added for the
\* dimensions after its last item
Padded(slice, n) == slice \o [j \in 1..(n - dimlength(slice)) |-> SliceRangeNone(1)]

\* the items select inside the extents from dimension d
RECURSIVE AdvancedSelects(_, _, _)
AdvancedSelects(items, shape, d) ==
  IF items = <<>> THEN TRUE
  ELSE /\ Head(items).kind = "at" =>
            /\ -shape[d] <= Head(items).at
            /\ Head(items).at < shape[d]
       /\ Head(items).kind = "array" =>
            \A j \in 1..Len(Head(items).index) :
              /\ -shape[d] <= Head(items).index[j]
              /\ Head(items).index[j] < shape[d]
       /\ AdvancedSelects(Tail(items), shape, d + 1)

\* the slice has Array items, all of one flat length, and At and Range
\* items, and selects inside a View of this shape
AdvancedDenotes(slice, shape) ==
  /\ Arrays(slice) # {}
  /\ \A d \in 1..Len(slice) : slice[d].kind \in {"at", "range", "array"}
  /\ \A d, e \in Arrays(slice) : Len(slice[d].index) = Len(slice[e].index)
  /\ Len(slice) <= Len(shape)
  /\ AdvancedSelects(slice, shape, 1)

\* the shape of the selection: the first Array item puts its own shape where
\* it stands, the later ones add nothing
RECURSIVE AdvancedShape(_, _, _, _)
AdvancedShape(items, shape, d, seen) ==
  IF items = <<>> THEN <<>>
  ELSE IF Head(items).kind = "at"
    THEN AdvancedShape(Tail(items), shape, d + 1, seen)
  ELSE IF Head(items).kind = "range"
    THEN <<Len(PyIndices(Head(items), shape[d]))>>
         \o AdvancedShape(Tail(items), shape, d + 1, seen)
  ELSE (IF seen THEN <<>> ELSE Head(items).shape)
       \o AdvancedShape(Tail(items), shape, d + 1, TRUE)

\* the multi-index of the source element at a multi-index of the selection:
\* the first Array item is read at the position the multi-index has in its
\* shape, and every later Array item at that same position (pos is -1 until
\* an Array item is met)
RECURSIVE AdvancedIndex(_, _, _, _, _)
AdvancedIndex(items, shape, d, ix, pos) ==
  IF items = <<>> THEN <<>>
  ELSE IF Head(items).kind = "at"
    THEN <<Wrapped(Head(items).at, shape[d])>>
         \o AdvancedIndex(Tail(items), shape, d + 1, ix, pos)
  ELSE IF Head(items).kind = "range"
    THEN <<PyIndices(Head(items), shape[d])[Head(ix) + 1]>>
         \o AdvancedIndex(Tail(items), shape, d + 1, Tail(ix), pos)
  ELSE IF pos >= 0
    THEN <<Wrapped(Head(items).index[pos + 1], shape[d])>>
         \o AdvancedIndex(Tail(items), shape, d + 1, ix, pos)
  ELSE LET own == Len(Head(items).shape)
           at == FlatPos(SubSeq(ix, 1, own), Head(items).shape)
       IN <<Wrapped(Head(items).index[at + 1], shape[d])>>
          \o AdvancedIndex(Tail(items), shape, d + 1,
                           SubSeq(ix, own + 1, Len(ix)), at)

\* call k returned the selection its slice denotes on its receiver
AdvancedOutcome(k) ==
  LET v == views[log[k].self]
      items == Padded(log[k].arg, ndim(v))
  IN /\ log[k].err = ""
     /\ log[k].out # 0
     /\ views[log[k].out].shape = AdvancedShape(items, v.shape, 1, FALSE)
     /\ \A ix \in IndexSeqs(views[log[k].out].shape) :
          ReadBytes(heap, views[log[k].out], ix)
            = ReadBytes(heap, v, AdvancedIndex(items, v.shape, 1, ix, -1))

\* the getitem calls whose slice has Array items and denotes a selection
AdvancedCalls ==
  {k \in Calls("getitem") :
     /\ ~isscalar(views[log[k].self])
     /\ AdvancedDenotes(log[k].arg, views[log[k].self].shape)}

\* C25: in getitem by carry the first Array item of a slice gives the result
\* its own shape, one selection for each entry of the carry, and every later
\* Array item of the same flat length is read at the position of the first,
\* every Range item after it keeping that position: two 1-dimensional Arrays
\* a, b on the first two dimensions give out[k] = source[a[k], b[k]]
C25_ArraysCombine == \A k \in AdvancedCalls : AdvancedOutcome(k)

\* a call with two 1-dimensional Array items of GetitemLen entries on the
\* first two dimensions of a 2-dimensional View returned GetitemLen
\* elements, and another with an Array, a Range and an Array item returned a
\* View of 2 dimensions
C25_Witness ==
  /\ \E k \in AdvancedCalls :
       /\ log[k].arg = <<AdvancedA, AdvancedB>>
       /\ ndim(views[log[k].self]) = 2
       /\ log[k].out # 0
       /\ views[log[k].out].shape = <<GetitemLen>>
  /\ \E k \in AdvancedCalls :
       /\ log[k].arg = <<AdvancedA, SliceRangeNone(-1), AdvancedB>>
       /\ log[k].out # 0
       /\ ndim(views[log[k].out]) = 2

(***************************************************************************)
(* Ellipsis.                                                               *)
(***************************************************************************)
\* the getitem calls on a View of at least one dimension with a slice of At,
\* Range, Ellipsis and NewAxis items that has an Ellipsis, resolved by
\* strides or by carry
EllipsisCalls ==
  {k \in Calls("getitem") :
     /\ ~isscalar(views[log[k].self])
     /\ OnlyBasic(log[k].arg)
     /\ Cardinality(Ellipses(log[k].arg)) = 1}

\* call k ended as the resolution, on the same path, of its slice with the
\* Ellipsis replaced by one whole Range for each dimension the other items
\* leave
AsExpanded(k) ==
  LET v == views[log[k].self]
      same == getitem(heap, v, Expanded(log[k].arg, ndim(v)))
  IN /\ KindOf(log[k].err) = KindOf(same.err)
     /\ same.err = "" =>
          /\ log[k].out # 0
          /\ SameElements(heap \o same.alloc, views[log[k].out], same.view)

\* C26: on a View of N dimensions an Ellipsis among items that consume
\* k <= N dimensions stands for exactly N - k whole Ranges, on both paths;
\* and whatever k is, the Ellipsis overload is entered at most N + 1 times
\* before the call returns or raises
C26_EllipsisExpands ==
  \A k \in EllipsisCalls :
    LET v == views[log[k].self]
    IN /\ Consumed(log[k].arg) <= ndim(v) => AsExpanded(k)
       /\ getitem_ellipsis_steps(ndim(v) + 1, log[k].arg) <= ndim(v) + 1
       /\ log[k].err # "" \/ log[k].out # 0

\* an Ellipsis before one At item on a 3-dimensional View returned a View of
\* 2 dimensions, by strides and by carry, and an Ellipsis before more items
\* than the View has dimensions raised after N + 1 entries
C26_Witness ==
  /\ \E k \in EllipsisCalls :
       /\ log[k].arg = <<SliceEllipsis, SliceAt(0)>>
       /\ ndim(views[log[k].self]) = 3
       /\ log[k].out # 0
       /\ ndim(views[log[k].out]) = 2
       /\ getitem_ellipsis_steps(4, log[k].arg) = 3
  /\ \E k \in EllipsisCalls :
       LET v == views[log[k].self]
       IN /\ Consumed(log[k].arg) > ndim(v)
          /\ log[k].err # ""
          /\ getitem_ellipsis_steps(ndim(v) + 1, log[k].arg) = ndim(v) + 1

\* the View is without identities, or is not empty and has one row of
\* identities for each of its rows
RowsIdentified(v) ==
  v.identities.present =>
    /\ v.shape[1] > 0
    /\ Len(v.identities.ids) = v.shape[1]

\* the statement of C26 for those Views
C26_EllipsisExpandsIdentified ==
  \A k \in EllipsisCalls :
    LET v == views[log[k].self]
    IN RowsIdentified(v) =>
         /\ Consumed(log[k].arg) <= ndim(v) => AsExpanded(k)
         /\ getitem_ellipsis_steps(ndim(v) + 1, log[k].arg) <= ndim(v) + 1
         /\ log[k].err # "" \/ log[k].out # 0

(***************************************************************************)
(* Layout normalization before kernels.                                    *)
(***************************************************************************)
\* the multi-index into a shape of a position in row-major order
RECURSIVE Unravel(_, _)
Unravel(pos, shape) ==
  IF shape = <<>> THEN <<>>
  ELSE Unravel(pos \div shape[Len(shape)], SubSeq(shape, 1, Len(shape) - 1))
       \o <<pos % shape[Len(shape)]>>

\* on holds the elements of v, one after the other in row-major order
FlatOf(h, on, v) ==
  /\ on.shape = <<Product(v.shape)>>
  /\ \A pos \in 0..(Product(v.shape) - 1) :
       ReadBytes(h, on, <<pos>>) = ReadBytes(h, v, Unravel(pos, v.shape))

\* a call of reduce_next, sort_next or argsort_next: it raises on a scalar;
\* otherwise the View its kernel reads, or the content of the RegularArray it
\* hands the operation to, is 1-dimensional and contiguous and holds the
\* elements of the receiver, and is the receiver itself when that is
\* 1-dimensional and contiguous already; a kernel is reached from a
\* 1-dimensional receiver only
SegmentedNormalized(k) ==
  LET v == views[log[k].self]
  IN IF isscalar(v) THEN log[k].err # "" /\ log[k].out = 0
     ELSE log[k].err = "" =>
            /\ ndim(log[k].ret.on) = 1
            /\ iscontiguous(log[k].ret.on)
            /\ FlatOf(heap, log[k].ret.on, v)
            /\ (ndim(v) = 1 /\ iscontiguous(v)) => log[k].ret.on = v
            /\ (log[k].out # 0) <=> (ndim(v) = 1)

\* a call of merge that wrote a buffer read contiguous Views holding the
\* elements of both operands; merge raises on a scalar receiver
MergeNormalized(k) ==
  LET self == views[log[k].self]
      other == views[log[k].other]
      ops == merge_operands(heap, self, other)
      h == heap \o ops[1].alloc \o ops[2].alloc
  IN IF isscalar(self) THEN log[k].err # "" /\ log[k].out = 0
     ELSE log[k].out # 0 =>
            /\ iscontiguous(ops[1].view)
            /\ iscontiguous(ops[2].view)
            /\ SameElements(h, ops[1].view, self)
            /\ SameElements(h, ops[2].view, other)

\* a call of getitem resolved by carry read a contiguous View holding the
\* elements of its receiver; getitem raises on a scalar
CarryNormalized(k) ==
  LET v == views[log[k].self]
      safe == contiguous(heap, v)
  IN IF isscalar(v) THEN log[k].err # "" /\ log[k].out = 0
     ELSE getitem_branch(v, log[k].arg) = "next" =>
            /\ iscontiguous(safe.view)
            /\ SameElements(heap \o safe.alloc, safe.view, v)

FreshBuffer(v) ==
  SubSeq(heap[v.ptr], v.byteoffset + 1,
         v.byteoffset + v.shape[1] * v.itemsize)

\* call k of sort_next or argsort_next returned what the same call returns
\* on a fresh View at byte offset zero that holds the receiver's elements
AsOnFresh(k) ==
  LET v == views[log[k].self]
      a == log[k].arg
      h == heap \o <<FreshBuffer(v)>>
      fresh == [v EXCEPT !.ptr = Len(h), !.byteoffset = 0]
      same == IF log[k].op = "sort_next"
                THEN sort_next(h, fresh, a.seg.starts, a.seg.parents,
                               a.seg.outlength, a.ascending, a.stable,
                               a.keepdims)
                ELSE argsort_next(h, fresh, a.seg.starts, a.seg.parents,
                                  a.seg.outlength, a.ascending, a.stable,
                                  a.keepdims)
  IN /\ log[k].err = same.err
     /\ same.err = "" =>
          /\ log[k].out # 0
          /\ views[log[k].out].shape = same.view.shape
          /\ heap[views[log[k].out].ptr] = same.alloc[1]

\* the calls of sort_next and argsort_next on a contiguous 1-dimensional
\* View of a sortable type that does not start at the start of its buffer
OffsetSorts ==
  {k \in SegmentedCalls("sort_next") \cup SegmentedCalls("argsort_next") :
     views[log[k].self].byteoffset # 0}

\* C28: sort_next and argsort_next on a contiguous 1-dimensional View with a
\* byte offset that is not zero return what they return on a fresh View at
\* offset zero holding the same elements
C28_SortsOwnElements == \A k \in OffsetSorts : AsOnFresh(k)

\* the same for the Views at byte offset zero
C28_SortsOwnElementsAtStart ==
  \A k \in SegmentedCalls("sort_next") \cup SegmentedCalls("argsort_next") :
    views[log[k].self].byteoffset = 0 => AsOnFresh(k)


(***************************************************************************)
(* mergeable as the promise of merge.                                      *)
(***************************************************************************)
\* the merge calls of a pair of operands on which some mergeable call of the
\* same receiver and argument answered true
MergesOfMergeable ==
  {k \in Calls("merge") :
     \E m \in Calls("mergeable") :
       /\ log[m].self = log[k].self
       /\ log[m].other = log[k].other
       /\ log[m].ret = "true"}

\* both operands of merge call k have a case in the fill switch of the
\* result dtype
FilledByKernel(k) ==
  {views[log[k].self].dtype, views[log[k].other].dtype}
    \subseteq fill_cases(log[k].arg.dtype)

\* merge call k kept the promise: it raised nothing but NotImplemented, and
\* when it returned, every element came out of a fill call
KeepsPromise(k) ==
  /\ KindOf(log[k].err) \in {"", "NotImplemented"}
  /\ log[k].err = "" => (log[k].arg.kind = "NumpyArray" /\ FilledByKernel(k))

\* C29: for two Views with equal parameters, whenever mergeable answers true,
\* merge raises neither TypeError nor ShapeError (NotImplemented is the only
\* failure) and every element of both operands is written to the output by a
\* fill call of its dtype
C29_MergeableMerges ==
  \A k \in MergesOfMergeable :
    parameters_equal(views[log[k].self].parameters,
                     views[log[k].other].parameters)
      => KeepsPromise(k)

\* the same, when both operands have one of the dtypes the fill switches
\* name or one of those merge leaves unimplemented, and the operands are not
\* byte or char strings (which merge concatenates as bytes)
C29_MergeableMergesPrimitive ==
  \A k \in MergesOfMergeable :
    /\ views[log[k].self].dtype # "NOT_PRIMITIVE"
    /\ views[log[k].other].dtype # "NOT_PRIMITIVE"
    /\ ~parameter_equals(views[log[k].self].parameters, "byte")
    /\ ~parameter_equals(views[log[k].self].parameters, "char")
    => KeepsPromise(k)

\* a merge of a mergeable pair that returned a View filled by the kernels
C29_Witness ==
  \E k \in MergesOfMergeable :
    /\ log[k].err = ""
    /\ FilledByKernel(k)
    /\ views[log[k].self].dtype # views[log[k].other].dtype
    /\ ndim(views[log[k].self]) = 2


(***************************************************************************)
(* merge of integer Views.                                                 *)
(***************************************************************************)
\* the value of an integer element in two's complement on 9 bytes, wide
\* enough to hold every value of every integer dtype: sign-extended when
\* the dtype is signed, zero-extended when it is unsigned
WideValue(bytes, dt) ==
  [k \in 1..9 |->
     IF k <= Len(bytes) THEN bytes[k]
     ELSE IF is_signed(dt) /\ bytes[Len(bytes)] >= 128 THEN 255 ELSE 0]

\* the largest value of dt is 2^MaxBits(dt) - 1
MaxBits(dt) ==
  IF is_signed(dt) THEN 8 * dtype_to_itemsize(dt) - 1
  ELSE 8 * dtype_to_itemsize(dt)

\* the smallest value of dt is -(2^MinBits(dt)) when signed, 0 otherwise
MinBits(dt) == IF is_signed(dt) THEN 8 * dtype_to_itemsize(dt) - 1 ELSE -1

\* the value range of dtype to contains the value range of dtype from
RangeContains(to, from) ==
  /\ MaxBits(from) <= MaxBits(to)
  /\ MinBits(from) <= MinBits(to)

\* the values of the elements of a 1-dimensional integer View, in order
IntegerValues(v) ==
  [i \in 1..v.shape[1] |-> WideValue(Elements(v)[i], v.dtype)]

\* the merge calls whose operands are both integer Views, neither pair
\* being uint64 with a signed dtype
IntegerMerges ==
  {k \in Calls("merge") :
     <<views[log[k].self].dtype, views[log[k].other].dtype>> \in IntegerPairs}

====
